---- MODULE Spec2Model ----
(***************************************************************************)
(* Model of the request execution core of XposedOrNot-JS:                  *)
(* HttpClient.request (src/src/utils/http.ts) with its timeout timer, its  *)
(* retry loop, response decoding and error classification, and the error   *)
(* classes (src/src/endpoints/breaches.ts).                                *)
(*                                                                         *)
(* One logical request is one call of HttpClient.request.  The local       *)
(* variables of a call (attempt, lastError, the AbortController and the    *)
(* timer) are indexed by the call, the configuration is shared.            *)
(***************************************************************************)
EXTENDS Integers, Sequences, FiniteSets, TLC

VARIABLES
    config,     \* the ResolvedConfig held by the HttpClient
    pc,         \* pc[r]: where call r of request() is suspended
    attempt,    \* attempt[r]: the local `attempt`
    lastError,  \* lastError[r]: the local `lastError`
    timer,      \* timer[r]: the setTimeout timer `timeoutId`
    aborted,    \* aborted[r]: controller.signal.aborted
    resp,       \* resp[r]: the Response whose body is being read
    result,     \* result[r]: how the promise of call r settled
    hist,       \* hist[r]: outcome of every fetch issued, in order
    delays,     \* delays[r]: every backoff delay waited (ms), in order
    fired,      \* fired[r]: where call r was when its timer fired
    ep,         \* ep[r]: the endpoint function that issued call r
    call,       \* a constructor call: its arguments and what it produced
    req         \* req[r]: the arguments of call r of request(), its locals url
                \* and requestHeaders, and the init of every fetch it issued

\* the state of the calls of HttpClient.request
reqVars == <<config, pc, attempt, lastError, timer, aborted, resp, result, hist, delays, fired>>

vars == <<config, pc, attempt, lastError, timer, aborted, resp, result, hist, delays, fired,
          ep, call, req>>

----------------------------------------------------------------------------
(* Bounds of the model *)

\* largest value of config.retries explored
RetriesBound == 4

\* largest value of config.retries explored with two concurrent calls
ConcRetriesBound == 2

\* largest value of config.retries explored under the endpoint functions
EndpointRetriesBound == 2

\* request() called with explicit options
RequestRetriesBound == 2

\* retries explored under the wide range of response statuses
StatusRetriesBound == 3

\* retries explored under fair scheduling
LiveRetriesBound == 3

----------------------------------------------------------------------------
(* Program constants *)

MIN_TIMEOUT == 1000
MAX_TIMEOUT == 300000
MIN_RETRIES == 0
MAX_RETRIES == 10
DEFAULT_TIMEOUT == 30000

\* the calls of request() on one client; call 1 runs alone in Spec
Reqs == {1, 2}
Solo == {1}

----------------------------------------------------------------------------
(* JavaScript values *)

Undef == [t |-> "undefined"]
Null == [t |-> "null"]
Str(s) == [t |-> "string", v |-> s]
Num(n) == [t |-> "number", v |-> n]
Bool(b) == [t |-> "boolean", v |-> b]
\* an object is a function from its own property names to values
Obj(f) == [t |-> "object", o |-> f]
\* an array holds the sequence of its elements
Arr(a) == [t |-> "array", a |-> a]
\* a string given by its characters
Chars(cs) == [t |-> "string", cs |-> cs]
EmptyObj == Obj([k \in {} |-> Undef])

\* obj.k for an object value
Get(d, k) == IF d.t = "object" /\ k \in DOMAIN d.o THEN d.o[k] ELSE Undef

\* JavaScript truthiness
Truthy(d) ==
    CASE d.t = "undefined" -> FALSE
      [] d.t = "null" -> FALSE
      [] d.t = "string" -> IF "cs" \in DOMAIN d THEN d.cs # <<>> ELSE d.v # ""
      [] d.t = "number" -> d.v # 0
      [] d.t = "boolean" -> d.v
      [] OTHER -> TRUE

----------------------------------------------------------------------------
(* The error classes *)

XposedOrNotError(message, code, statusCode) ==
    [name |-> "XposedOrNotError", message |-> message, code |-> code,
     statusCode |-> statusCode]

RateLimitError(message, retryAfter) ==
    [name |-> "RateLimitError", message |-> message,
     code |-> "RATE_LIMIT_EXCEEDED", statusCode |-> Num(429),
     retryAfter |-> retryAfter]

NotFoundError(message) ==
    [name |-> "NotFoundError", message |-> message, code |-> "NOT_FOUND",
     statusCode |-> Num(404)]

AuthenticationError(message) ==
    [name |-> "AuthenticationError", message |-> message,
     code |-> "AUTHENTICATION_FAILED", statusCode |-> Num(401)]

NetworkError(message, cause) ==
    [name |-> "NetworkError", message |-> message, code |-> "NETWORK_ERROR",
     statusCode |-> Undef, cause |-> cause]

\* TimeoutError with the code of the class it was copied from
TimeoutError_NetworkCode(message) ==
    [name |-> "TimeoutError", message |-> message, code |-> "NETWORK_ERROR",
     statusCode |-> Undef]

TimeoutError(message) ==
    [name |-> "TimeoutError", message |-> message, code |-> "TIMEOUT",
     statusCode |-> Undef]

ApiError(message, statusCode, response) ==
    [name |-> "ApiError", message |-> message, code |-> "API_ERROR",
     statusCode |-> Num(statusCode), response |-> response]

\* error instanceof XposedOrNotError
IsXposedOrNotError(e) ==
    e.name \in {"XposedOrNotError", "RateLimitError", "NotFoundError",
                "AuthenticationError", "ValidationError", "NetworkError",
                "TimeoutError", "ApiError"}

\* error instanceof RateLimitError
IsRateLimitError(e) == e.name = "RateLimitError"

\* what fetch rejects with: a TypeError on a transport failure, and a
\* DOMException named AbortError when the signal is aborted
TransportError == [name |-> "TypeError", message |-> "fetch failed"]
AbortError == [name |-> "AbortError", message |-> "This operation was aborted"]

\* `lastError` before any assignment
NoError == [name |-> "undefined", message |-> "undefined"]

\* the error object created during attempt n (object identity)
Thrown(e, n) == e @@ [id |-> n]

----------------------------------------------------------------------------
(* What the transport can deliver *)

\* response statuses explored
Statuses == {200, 201, 304, 400, 401, 403, 404, 422, 429, 499, 500}

\* values of the content-type response header (Undef: header missing)
ContentTypes == {Undef, Str("application/json; charset=utf-8"), Str("text/html")}

\* response bodies on the wire
Bodies == {"", "oops", "{\"ok\":true}", "{\"retry_after\":60}",
           "{\"Error\":\"bad\",\"retryAfter\":5}"}

\* the bodies JSON.parse accepts; every other body makes response.json() reject
JsonTexts == {"{\"ok\":true}", "{\"retry_after\":60}",
              "{\"Error\":\"bad\",\"retryAfter\":5}",
              "null",
              "{\"breaches\":[[\"Adobe\",\"Canva\"],[\"Zynga\"]],\"email\":\"a@b.c\"}",
              "{\"Error\":\"Not found\",\"email\":\"a@b.c\"}",
              "{\"exposedBreaches\":[{\"breachID\":\"Adobe\"}]}",
              "{\"exposedBreaches\":null}",
              "{\"ExposedBreaches\":{\"breaches_details\":[{\"breach\":\"Adobe\"}]},\"ExposedPastes\":null}",
              "{\"ExposedBreaches\":{\"breaches_details\":[]},\"ExposedPastes\":[]}",
              "{\"ExposedBreaches\":null,\"ExposedPastes\":[{\"pasteId\":\"p1\"}]}"}

\* JSON.parse on the bodies it accepts
JsonParse(raw) ==
    CASE raw = "{\"ok\":true}" -> Obj([k \in {"ok"} |-> Bool(TRUE)])
      [] raw = "{\"retry_after\":60}" -> Obj([k \in {"retry_after"} |-> Num(60)])
      [] raw = "{\"Error\":\"bad\",\"retryAfter\":5}" ->
             Obj([k \in {"Error", "retryAfter"} |->
                    IF k = "Error" THEN Str("bad") ELSE Num(5)])
      [] raw = "null" -> Null
      [] raw = "{\"breaches\":[[\"Adobe\",\"Canva\"],[\"Zynga\"]],\"email\":\"a@b.c\"}" ->
             Obj([k \in {"breaches", "email"} |->
                    IF k = "email" THEN Str("a@b.c")
                    ELSE Arr(<<Arr(<<Str("Adobe"), Str("Canva")>>), Arr(<<Str("Zynga")>>)>>)])
      [] raw = "{\"Error\":\"Not found\",\"email\":\"a@b.c\"}" ->
             Obj([k \in {"Error", "email"} |->
                    IF k = "email" THEN Str("a@b.c") ELSE Str("Not found")])
      [] raw = "{\"exposedBreaches\":null}" -> Obj([k \in {"exposedBreaches"} |-> Null])
      [] raw = "{\"exposedBreaches\":[{\"breachID\":\"Adobe\"}]}" ->
             Obj([k \in {"exposedBreaches"} |->
                    Arr(<<Obj([i \in {"breachID"} |-> Str("Adobe")])>>)])
      [] raw = "{\"ExposedBreaches\":{\"breaches_details\":[{\"breach\":\"Adobe\"}]},\"ExposedPastes\":null}" ->
             Obj([k \in {"ExposedBreaches", "ExposedPastes"} |->
                    IF k = "ExposedPastes" THEN Null
                    ELSE Obj([j \in {"breaches_details"} |->
                                Arr(<<Obj([i \in {"breach"} |-> Str("Adobe")])>>)])])
      [] raw = "{\"ExposedBreaches\":{\"breaches_details\":[]},\"ExposedPastes\":[]}" ->
             Obj([k \in {"ExposedBreaches", "ExposedPastes"} |->
                    IF k = "ExposedPastes" THEN Arr(<<>>)
                    ELSE Obj([j \in {"breaches_details"} |-> Arr(<<>>)])])
      [] raw = "{\"ExposedBreaches\":null,\"ExposedPastes\":[{\"pasteId\":\"p1\"}]}" ->
             Obj([k \in {"ExposedBreaches", "ExposedPastes"} |->
                    IF k = "ExposedBreaches" THEN Null
                    ELSE Arr(<<Obj([i \in {"pasteId"} |-> Str("p1")])>>)])

\* contentType?.includes('application/json')
IsJsonContentType(ct) ==
    ct.t = "string" /\ ct.v \in {"application/json", "application/json; charset=utf-8"}

\* the 304 test that never holds
NotModified_Never(status) == FALSE

\* response.status === 304
NotModified(status) == status = 304

\* response.ok
Ok(status) == status >= 200 /\ status <= 299

\* typeof
TypeOf(d) == IF d.t \in {"null", "array"} THEN "object" ELSE d.t

----------------------------------------------------------------------------
(* Response decoding and classification *)

\* the extraction that gives up when the field Error is not a string
extractErrorMessage_ErrorOnly(data) ==
    IF TypeOf(data) = "string" THEN data.v
    ELSE IF Truthy(data) /\ TypeOf(data) = "object"
              /\ TypeOf(Get(data, "Error")) = "string" THEN Get(data, "Error").v
    ELSE "An unknown error occurred"

extractErrorMessage(data) ==
    IF TypeOf(data) = "string" THEN data.v
    ELSE IF Truthy(data) /\ TypeOf(data) = "object"
              /\ TypeOf(Get(data, "Error")) = "string" THEN Get(data, "Error").v
    ELSE IF Truthy(data) /\ TypeOf(data) = "object"
              /\ TypeOf(Get(data, "error")) = "string" THEN Get(data, "error").v
    ELSE IF Truthy(data) /\ TypeOf(data) = "object"
              /\ TypeOf(Get(data, "message")) = "string" THEN Get(data, "message").v
    ELSE "An unknown error occurred"

\* the extraction that reads retry_after only
extractRetryAfter_SnakeOnly(data) ==
    IF Truthy(data) /\ TypeOf(data) = "object"
         /\ TypeOf(Get(data, "retry_after")) = "number" THEN Get(data, "retry_after")
    ELSE Undef

extractRetryAfter(data) ==
    IF Truthy(data) /\ TypeOf(data) = "object"
         /\ TypeOf(Get(data, "retry_after")) = "number" THEN Get(data, "retry_after")
    ELSE IF Truthy(data) /\ TypeOf(data) = "object"
         /\ TypeOf(Get(data, "retryAfter")) = "number" THEN Get(data, "retryAfter")
    ELSE Undef

\* handleErrorResponse without its 404 case
handleErrorResponse_No404(status, data) ==
    CASE status = 401 -> AuthenticationError(extractErrorMessage(data))
      [] status = 429 ->
             RateLimitError(extractErrorMessage(data), extractRetryAfter(data))
      [] OTHER ->
             ApiError(IF extractErrorMessage(data) # ""
                        THEN extractErrorMessage(data)
                        ELSE "API error: " \o ToString(status),
                      status, data)

\* the error handleErrorResponse throws
handleErrorResponse(status, data) ==
    CASE status = 401 -> AuthenticationError(extractErrorMessage(data))
      [] status = 404 -> NotFoundError(extractErrorMessage(data))
      [] status = 429 ->
             RateLimitError(extractErrorMessage(data), extractRetryAfter(data))
      [] OTHER ->
             ApiError(IF extractErrorMessage(data) # ""
                        THEN extractErrorMessage(data)
                        ELSE "API error: " \o ToString(status),
                      status, data)

\* the decoding that falls back to the text when JSON.parse fails
DecodeBody_TextOnFailure(ct, raw) ==
    IF IsJsonContentType(ct) /\ raw \in JsonTexts THEN JsonParse(raw) ELSE Str(raw)

\* `data` in handleResponse: response.json() with null on failure, or
\* response.text()
DecodeBody(ct, raw) ==
    IF IsJsonContentType(ct)
      THEN IF raw \in JsonTexts THEN JsonParse(raw) ELSE Null
      ELSE Str(raw)

----------------------------------------------------------------------------
(* The conditions of the retry loop *)

\* the loop condition with <= for <
LoopCond_Inclusive(att, retries) == att <= retries

\* the loop condition with the largest accepted value for the configured one
LoopCond_UpToMaximum(att, retries) == att < MAX_RETRIES

\* while (attempt < this.config.retries)
LoopCond(att, retries) == att < retries

\* the rethrow test applied to ApiError only
NonRetryable_OnlyApi(e) ==
    /\ e.name = "ApiError"
    /\ Truthy(e.statusCode)
    /\ e.statusCode.v >= 400
    /\ e.statusCode.v < 500
    /\ ~IsRateLimitError(e)

\* the rethrow test with > 400 for >= 400
NonRetryable_Above400(e) ==
    /\ IsXposedOrNotError(e)
    /\ Truthy(e.statusCode)
    /\ e.statusCode.v > 400
    /\ e.statusCode.v < 500
    /\ ~IsRateLimitError(e)

\* the rethrow test without the exception for RateLimitError
NonRetryable_NoRateLimitException(e) ==
    /\ IsXposedOrNotError(e)
    /\ Truthy(e.statusCode)
    /\ e.statusCode.v >= 400
    /\ e.statusCode.v < 500

\* the rethrow test without the lower limit 400
NonRetryable_Below500(e) ==
    /\ IsXposedOrNotError(e)
    /\ Truthy(e.statusCode)
    /\ e.statusCode.v < 500
    /\ ~IsRateLimitError(e)

\* the test under which the catch block rethrows at once
NonRetryable(e) ==
    /\ IsXposedOrNotError(e)
    /\ Truthy(e.statusCode)
    /\ e.statusCode.v >= 400
    /\ e.statusCode.v < 500
    /\ ~IsRateLimitError(e)

\* the abort test looking for the name of the error it is about to throw
IsAbortError_TimeoutName(e) == e.name = "TimeoutError"

\* error instanceof Error && error.name === 'AbortError'
IsAbortError(e) == e.name = "AbortError"

\* the backoff test with <= for <
ShouldSleep_Inclusive(att, retries) == att <= retries

\* the catch block without a backoff
ShouldSleep_Never(att, retries) == FALSE

\* if (attempt < this.config.retries) before the backoff
ShouldSleep(att, retries) == att < retries

RECURSIVE Pow2(_)
Pow2(n) == IF n = 0 THEN 1 ELSE 2 * Pow2(n - 1)

Min(a, b) == IF a < b THEN a ELSE b

\* the backoff with exponent attempt for attempt - 1
Delay_FromAttempt(att) == Min(1000 * Pow2(att), 10000)

\* the backoff without its cap
Delay_NoCap(att) == 1000 * Pow2(att - 1)

\* Math.min(1000 * Math.pow(2, attempt - 1), 10000)
Delay(att) == Min(1000 * Pow2(att - 1), 10000)

\* the throw after the loop without the NetworkError wrapper
Exhausted_Raw(lastErr, retries) == lastErr

\* the throw after the loop wrapping every error
Exhausted_AlwaysWrap(lastErr, retries) ==
    NetworkError("Request failed after " \o ToString(retries)
                   \o " attempts: " \o lastErr.message,
                 lastErr)

\* what request throws after the loop
Exhausted(lastErr, retries) ==
    IF IsXposedOrNotError(lastErr)
      THEN lastErr
      ELSE NetworkError("Request failed after " \o ToString(retries)
                          \o " attempts: " \o lastErr.message,
                        lastErr)

----------------------------------------------------------------------------
(* How a call settles *)

Pending == [kind |-> "pending"]
Resolved(v) == [kind |-> "value", value |-> v]
Rejected(e) == [kind |-> "error", error |-> e]

\* entries of hist: a completed response, a response whose body could not be
\* read, a transport failure, an abort by the timer
Responded(status) == [k |-> "response", status |-> status]
BodyLost == [k |-> "bodyfail", status |-> 0]
Failed == [k |-> "neterr", status |-> 0]
Aborted == [k |-> "abort", status |-> 0]

----------------------------------------------------------------------------
(* The state machine *)

Configs ==
    [retries : MIN_RETRIES .. Min(RetriesBound, MAX_RETRIES),
     timeout : {MIN_TIMEOUT, DEFAULT_TIMEOUT}]

\* no endpoint function is running, no constructor is being called
NoEndpoint == [fn |-> "none", st |-> "idle"]
NoCall == [fn |-> "none", st |-> "idle"]
NoRequest == [st |-> "idle", fetches |-> <<>>]

\* the calls of request() before they start, on a client configured with cfg
InitRequests(cfg) ==
    /\ config = cfg
    /\ pc = [r \in Reqs |-> "idle"]
    /\ attempt = [r \in Reqs |-> 0]
    /\ lastError = [r \in Reqs |-> NoError]
    /\ timer = [r \in Reqs |-> "none"]
    /\ aborted = [r \in Reqs |-> FALSE]
    /\ resp = [r \in Reqs |-> [status |-> 0, ct |-> Undef, raw |-> ""]]
    /\ result = [r \in Reqs |-> Pending]
    /\ hist = [r \in Reqs |-> <<>>]
    /\ delays = [r \in Reqs |-> <<>>]
    /\ fired = [r \in Reqs |-> [in |-> "none", at |-> 0]]
    /\ req = [r \in Reqs |-> NoRequest]

Init ==
    /\ \E cfg \in Configs : InitRequests(cfg)
    /\ ep = [r \in Reqs |-> NoEndpoint]
    /\ call = NoCall

\* the head of the while loop, reached with `attempt` = att and `lastError` =
\* lastErr: start the next fetch, or leave the loop and throw
LoopHead(r, att, lastErr) ==
    IF LoopCond(att, config.retries)
      THEN /\ pc' = [pc EXCEPT ![r] = "fetch"]
           /\ attempt' = [attempt EXCEPT ![r] = att + 1]
           /\ result' = result
      ELSE /\ pc' = [pc EXCEPT ![r] = "done"]
           /\ attempt' = [attempt EXCEPT ![r] = att]
           /\ result' = [result EXCEPT ![r] = Rejected(Exhausted(lastErr, config.retries))]

\* the catch block of the loop, entered with the thrown `error`
Catch(r, error) ==
    /\ lastError' = [lastError EXCEPT ![r] = error]
    /\ IF NonRetryable(error)
         THEN /\ pc' = [pc EXCEPT ![r] = "done"]
              /\ result' = [result EXCEPT ![r] = Rejected(error)]
              /\ UNCHANGED <<attempt, delays>>
       ELSE IF IsAbortError(error)
         THEN /\ pc' = [pc EXCEPT ![r] = "done"]
              /\ result' = [result EXCEPT ![r] =
                     Rejected(TimeoutError("Request timed out after "
                                \o ToString(config.timeout) \o "ms"))]
              /\ UNCHANGED <<attempt, delays>>
       ELSE IF ShouldSleep(attempt[r], config.retries)
         THEN /\ pc' = [pc EXCEPT ![r] = "sleep"]
              /\ delays' = [delays EXCEPT ![r] = Append(@, Delay(attempt[r]))]
              /\ UNCHANGED <<attempt, result>>
       ELSE /\ LoopHead(r, attempt[r], error)
            /\ UNCHANGED delays

\* a request() that lowers the configured retries to 1 before it starts
Request_LowersRetries(r) ==
    /\ pc[r] = "idle"
    /\ timer' = [timer EXCEPT ![r] = "armed"]
    /\ config' = [config EXCEPT !.retries = 1]
    /\ LoopHead(r, 0, NoError)
    /\ UNCHANGED <<lastError, aborted, resp, hist, delays, fired>>

\* request() is called: the timer is started and the loop entered
Request(r) ==
    /\ pc[r] = "idle"
    /\ timer' = [timer EXCEPT ![r] = "armed"]
    /\ LoopHead(r, 0, NoError)
    /\ UNCHANGED <<config, lastError, aborted, resp, hist, delays, fired>>

\* the timer callback aborting a controller that all calls share
TimerFire_SharedController(r) ==
    /\ timer[r] = "armed"
    /\ timer' = [timer EXCEPT ![r] = "fired"]
    /\ aborted' = [s \in Reqs |-> TRUE]
    /\ fired' = [fired EXCEPT ![r] = [in |-> pc[r], at |-> attempt[r]]]
    /\ UNCHANGED <<config, pc, attempt, lastError, resp, result, hist, delays>>

\* the timer callback runs: controller.abort()
TimerFire(r) ==
    /\ timer[r] = "armed"
    /\ timer' = [timer EXCEPT ![r] = "fired"]
    /\ aborted' = [aborted EXCEPT ![r] = TRUE]
    /\ fired' = [fired EXCEPT ![r] = [in |-> pc[r], at |-> attempt[r]]]
    /\ UNCHANGED <<config, pc, attempt, lastError, resp, result, hist, delays>>

\* a transport failure reported although the signal is already aborted
FetchReject_DespiteAbort(r) ==
    /\ pc[r] = "fetch"
    /\ hist' = [hist EXCEPT ![r] = Append(@, Failed)]
    /\ Catch(r, Thrown(TransportError, attempt[r]))
    /\ UNCHANGED <<config, timer, aborted, resp, fired>>

\* fetch rejects with a transport failure
FetchReject(r) ==
    /\ pc[r] = "fetch"
    /\ ~aborted[r]
    /\ hist' = [hist EXCEPT ![r] = Append(@, Failed)]
    /\ Catch(r, Thrown(TransportError, attempt[r]))
    /\ UNCHANGED <<config, timer, aborted, resp, fired>>

\* fetch rejects because the signal is aborted
FetchAbort(r) ==
    /\ pc[r] = "fetch"
    /\ aborted[r]
    /\ hist' = [hist EXCEPT ![r] = Append(@, Aborted)]
    /\ Catch(r, Thrown(AbortError, attempt[r]))
    /\ UNCHANGED <<config, timer, aborted, resp, fired>>

\* fetch resolves with a Response: clearTimeout, then handleResponse up to
\* the read of the body (no read for 304)
FetchResponse(r, status, ct) ==
    /\ pc[r] = "fetch"
    /\ ~aborted[r]
    /\ timer' = [timer EXCEPT ![r] = IF @ = "armed" THEN "cleared" ELSE @]
    /\ IF NotModified(status)
         THEN /\ pc' = [pc EXCEPT ![r] = "done"]
              /\ result' = [result EXCEPT ![r] = Resolved(EmptyObj)]
              /\ hist' = [hist EXCEPT ![r] = Append(@, Responded(status))]
              /\ UNCHANGED resp
         ELSE /\ pc' = [pc EXCEPT ![r] = "body"]
              /\ resp' = [resp EXCEPT ![r] = [status |-> status, ct |-> ct, raw |-> ""]]
              /\ UNCHANGED <<result, hist>>
    /\ UNCHANGED <<config, attempt, lastError, aborted, delays, fired>>

\* the body is read: the rest of handleResponse
BodyRead(r, raw) ==
    /\ pc[r] = "body"
    /\ hist' = [hist EXCEPT ![r] = Append(@, Responded(resp[r].status))]
    /\ IF Ok(resp[r].status)
         THEN /\ pc' = [pc EXCEPT ![r] = "done"]
              /\ result' = [result EXCEPT ![r] = Resolved(DecodeBody(resp[r].ct, raw))]
              /\ UNCHANGED <<attempt, lastError, delays>>
         ELSE Catch(r, Thrown(handleErrorResponse(resp[r].status,
                                                  DecodeBody(resp[r].ct, raw)),
                              attempt[r]))
    /\ resp' = [resp EXCEPT ![r].raw = raw]
    /\ UNCHANGED <<config, timer, aborted, fired>>

\* response.text() rejects: the connection is lost while the body is read
BodyFail(r) ==
    /\ pc[r] = "body"
    /\ ~IsJsonContentType(resp[r].ct)
    /\ hist' = [hist EXCEPT ![r] = Append(@, BodyLost)]
    /\ Catch(r, Thrown(TransportError, attempt[r]))
    /\ UNCHANGED <<config, timer, aborted, resp, fired>>

\* the backoff delay has elapsed
SleepDone(r) ==
    /\ pc[r] = "sleep"
    /\ LoopHead(r, attempt[r], lastError[r])
    /\ UNCHANGED <<config, lastError, timer, aborted, resp, hist, delays, fired>>

Step(r) ==
    \/ Request(r)
    \/ TimerFire(r)
    \/ FetchReject(r)
    \/ FetchAbort(r)
    \/ \E status \in Statuses, ct \in ContentTypes : FetchResponse(r, status, ct)
    \/ \E raw \in Bodies : BodyRead(r, raw)
    \/ BodyFail(r)
    \/ SleepDone(r)

Next == \E r \in Solo : Step(r) /\ UNCHANGED <<ep, call, req>>

Spec == Init /\ [][Next]_vars

----------------------------------------------------------------------------
(* Properties *)

\* number of fetch calls call r has issued so far
FetchesIssued(r) == Len(hist[r]) + (IF pc[r] \in {"fetch", "body"} THEN 1 ELSE 0)

\* every fetch of call r so far ended with outcome h
AllOutcomes(r, h) == \A i \in 1 .. Len(hist[r]) : hist[r][i] = h

\* the decoded body of the last response read by call r
LastData(r) == DecodeBody(resp[r].ct, resp[r].raw)

TimedOut(r) ==
    result[r] = Rejected(TimeoutError("Request timed out after "
                           \o ToString(config.timeout) \o "ms"))

\* C1: with retries = 0 a settled request has issued exactly one fetch
C1_ZeroRetriesOneAttempt ==
    \A r \in Reqs :
        (config.retries = 0 /\ pc[r] = "done") => FetchesIssued(r) = 1

\* C2: a request never issues more fetches than config.retries
C2_AttemptsBounded ==
    \A r \in Reqs : FetchesIssued(r) <= config.retries /\ attempt[r] <= config.retries

C2_Witness ==
    /\ config.retries >= 2
    /\ pc[1] = "done"
    /\ FetchesIssued(1) = config.retries

\* C3: the timeout timer stays armed until the request settles, so every
\* fetch in flight is covered by the timer (armed, or fired and aborting it),
\* also a fetch that follows transport failures and 500 or 429 responses
C3_FetchCoveredByTimer ==
    \A r \in Reqs :
        (/\ pc[r] = "fetch"
         /\ \A i \in 1 .. Len(hist[r]) :
                hist[r][i] \in {Failed, Responded(500), Responded(429)})
            => timer[r] \in {"armed", "fired"}

\* C4: once the timer has fired during a fetch, that fetch is the last one
\* and the request settles with TimeoutError only
C4_TimeoutInFlight ==
    \A r \in Reqs :
        fired[r].in = "fetch" =>
            /\ attempt[r] = fired[r].at
            /\ FetchesIssued(r) <= fired[r].at
            /\ Len(delays[r]) = fired[r].at - 1
            /\ \/ pc[r] = "fetch" /\ result[r] = Pending
               \/ /\ pc[r] = "done"
                  /\ TimedOut(r)
                  /\ result[r].error.code = "TIMEOUT"

C4_Witness ==
    /\ fired[1].in = "fetch"
    /\ config.retries >= 2
    /\ fired[1].at = config.retries
    /\ pc[1] = "done"
    /\ TimedOut(1)

\* C5: when every fetch fails with a transport error, a settled request with
\* retries = n >= 1 has made n attempts and n - 1 backoffs and throws a
\* NetworkError caused by the error of attempt n
C5_AllTransportFailures ==
    \A r \in Reqs :
        (pc[r] = "done" /\ config.retries >= 1 /\ AllOutcomes(r, Failed)) =>
            /\ Len(hist[r]) = config.retries
            /\ attempt[r] = config.retries
            /\ Len(delays[r]) = config.retries - 1
            /\ result[r].kind = "error"
            /\ result[r].error.name = "NetworkError"
            /\ result[r].error.code = "NETWORK_ERROR"
            /\ result[r].error.cause = Thrown(TransportError, config.retries)

C5_Witness ==
    /\ pc[1] = "done"
    /\ config.retries = 3
    /\ hist[1] = <<Failed, Failed, Failed>>
    /\ result[1].kind = "error"
    /\ result[1].error.cause.id = 3

\* C6: a 401 response is the last thing a request does: it settles with
\* AuthenticationError, no further fetch and no backoff after it
C6_Status401Ends ==
    \A r \in Reqs : \A i \in 1 .. Len(hist[r]) :
        hist[r][i] = Responded(401) =>
            /\ i = Len(hist[r])
            /\ pc[r] = "done"
            /\ attempt[r] = i
            /\ Len(delays[r]) = i - 1
            /\ result[r].kind = "error"
            /\ result[r].error.name = "AuthenticationError"
            /\ result[r].error.code = "AUTHENTICATION_FAILED"

C6_Witness ==
    /\ Len(hist[1]) = 2
    /\ hist[1][2] = Responded(401)
    /\ config.retries > 2
    /\ pc[1] = "done"

\* C7: a 404 response to the first fetch settles the request with
\* NotFoundError after one attempt and no backoff
C7_Status404First ==
    \A r \in Reqs :
        (Len(hist[r]) >= 1 /\ hist[r][1] = Responded(404)) =>
            /\ hist[r] = <<Responded(404)>>
            /\ pc[r] = "done"
            /\ attempt[r] = 1
            /\ delays[r] = <<>>
            /\ result[r].kind = "error"
            /\ result[r].error.name = "NotFoundError"
            /\ result[r].error.code = "NOT_FOUND"

C7_Witness ==
    /\ hist[1] = <<Responded(404)>>
    /\ config.retries >= 2
    /\ pc[1] = "done"

\* the 4xx statuses without a class of their own
Other4xx == {s \in Statuses : s >= 400 /\ s <= 499} \ {401, 404, 429}

\* C8: any other 4xx response settles the request at once with an ApiError
\* that carries the status and the decoded body
C8_Other4xxNotRetried ==
    \A r \in Reqs : \A i \in 1 .. Len(hist[r]) :
        (hist[r][i].k = "response" /\ hist[r][i].status \in Other4xx) =>
            /\ i = Len(hist[r])
            /\ pc[r] = "done"
            /\ attempt[r] = i
            /\ Len(delays[r]) = i - 1
            /\ result[r].kind = "error"
            /\ result[r].error.name = "ApiError"
            /\ result[r].error.code = "API_ERROR"
            /\ result[r].error.statusCode = Num(hist[r][i].status)
            /\ result[r].error.response = LastData(r)

C8_Witness ==
    /\ hist[1] = <<Responded(500), Responded(400)>>
    /\ config.retries > 2
    /\ pc[1] = "done"
    /\ result[1].kind = "error"
    /\ result[1].error.response =
           Obj([k \in {"Error", "retryAfter"} |-> IF k = "Error" THEN Str("bad") ELSE Num(5)])

\* C9: when every fetch is answered with 429, a settled request has made
\* config.retries attempts and throws the RateLimitError of the last
\* response, whose retryAfter is the number in the body of that response
C9_RateLimitRetried ==
    \A r \in Reqs :
        (pc[r] = "done" /\ config.retries >= 1 /\ AllOutcomes(r, Responded(429))) =>
            /\ Len(hist[r]) = config.retries
            /\ Len(delays[r]) = config.retries - 1
            /\ result[r].kind = "error"
            /\ result[r].error.name = "RateLimitError"
            /\ result[r].error.id = config.retries
            /\ (IsJsonContentType(resp[r].ct) /\ resp[r].raw = "{\"retry_after\":60}")
                   => result[r].error.retryAfter = Num(60)
            /\ (LastData(r).t = "object" /\ "retry_after" \in DOMAIN LastData(r).o)
                   => result[r].error.retryAfter = LastData(r).o["retry_after"]

C9_Witness ==
    /\ pc[1] = "done"
    /\ config.retries = 3
    /\ hist[1] = <<Responded(429), Responded(429), Responded(429)>>
    /\ resp[1].raw = "{\"retry_after\":60}"
    /\ result[1].kind = "error"
    /\ result[1].error.retryAfter = Num(60)

\* C10: with retries = 3 and the responses 500, 500, 200 the request resolves
\* with the decoded body of the third response after the backoffs 1000, 2000
C10_ScenarioA ==
    \A r \in Reqs :
        (config.retries = 3
           /\ hist[r] = <<Responded(500), Responded(500), Responded(200)>>) =>
            /\ pc[r] = "done"
            /\ attempt[r] = 3
            /\ delays[r] = <<1000, 2000>>
            /\ result[r] = Resolved(LastData(r))
            /\ (IsJsonContentType(resp[r].ct) /\ resp[r].raw = "{\"ok\":true}")
                   => result[r].value = Obj([k \in {"ok"} |-> Bool(TRUE)])

C10_Witness ==
    /\ config.retries = 3
    /\ hist[1] = <<Responded(500), Responded(500), Responded(200)>>
    /\ IsJsonContentType(resp[1].ct)
    /\ resp[1].raw = "{\"ok\":true}"
    /\ result[1] = Resolved(Obj([k \in {"ok"} |-> Bool(TRUE)]))

\* the error classes request may throw, with their codes
Taxonomy ==
    {<<"RateLimitError", "RATE_LIMIT_EXCEEDED">>, <<"NotFoundError", "NOT_FOUND">>,
     <<"AuthenticationError", "AUTHENTICATION_FAILED">>,
     <<"NetworkError", "NETWORK_ERROR">>, <<"TimeoutError", "TIMEOUT">>,
     <<"ApiError", "API_ERROR">>}

Retryable == {Failed, BodyLost, Responded(429), Responded(500)}

\* C13: when the attempts are used up, request throws the failure of the
\* last attempt: the classified error itself, or a NetworkError that wraps
\* the raw error and repeats its message
C13_LastFailureSurfaced ==
    \A r \in Reqs :
        (/\ pc[r] = "done"
         /\ config.retries >= 1
         /\ Len(hist[r]) = config.retries
         /\ hist[r][Len(hist[r])] \in Retryable) =>
            /\ result[r].kind = "error"
            /\ lastError[r].id = config.retries
            /\ IF hist[r][Len(hist[r])] \in {Failed, BodyLost}
                 THEN /\ result[r].error.name = "NetworkError"
                      /\ result[r].error.cause = lastError[r]
                      /\ result[r].error.cause = Thrown(TransportError, config.retries)
                      /\ result[r].error.message =
                             "Request failed after " \o ToString(config.retries)
                               \o " attempts: fetch failed"
                 ELSE /\ result[r].error = lastError[r]
                      /\ result[r].error =
                             Thrown(handleErrorResponse(hist[r][Len(hist[r])].status,
                                                        LastData(r)),
                                    config.retries)

C13_Witness ==
    /\ pc[1] = "done"
    /\ config.retries = 3
    /\ hist[1] = <<Failed, Responded(429), Responded(500)>>
    /\ result[1].kind = "error"
    /\ result[1].error.name = "ApiError"
    /\ result[1].error.id = 3

\* C14: a 304 response resolves the request with an empty object at once:
\* no body is read, nothing is thrown, no fetch follows
C14_NotModified ==
    \A r \in Reqs :
        /\ pc[r] = "body" => resp[r].status # 304
        /\ \A i \in 1 .. Len(hist[r]) :
              hist[r][i] = Responded(304) =>
                  /\ i = Len(hist[r])
                  /\ pc[r] = "done"
                  /\ attempt[r] = i
                  /\ result[r] = Resolved(Obj([k \in {} |-> Undef]))
                  /\ resp[r].status # 304

C14_Witness ==
    /\ hist[1] = <<Responded(500), Responded(304)>>
    /\ config.retries >= 3
    /\ pc[1] = "done"
    /\ result[1].kind = "value"

----------------------------------------------------------------------------
(* The backoff over the whole range of config.retries: a transport that *)
(* fails, answers 500 or 200, or loses the body                           *)

BackoffConfigs == [retries : MIN_RETRIES .. MAX_RETRIES, timeout : {DEFAULT_TIMEOUT}]

InitBackoff ==
    /\ \E cfg \in BackoffConfigs : InitRequests(cfg)
    /\ ep = [r \in Reqs |-> NoEndpoint]
    /\ call = NoCall

NextBackoff ==
    /\ \E r \in Solo :
          \/ Request(r)
          \/ TimerFire(r)
          \/ FetchReject(r)
          \/ FetchAbort(r)
          \/ \E status \in {200, 500} : FetchResponse(r, status, Undef)
          \/ BodyRead(r, "oops")
          \/ BodyFail(r)
          \/ SleepDone(r)
    /\ UNCHANGED <<ep, call, req>>

SpecBackoff == InitBackoff /\ [][NextBackoff]_vars

\* the documented backoff after failed attempt k
ExpectedDelay(k) ==
    CASE k = 1 -> 1000
      [] k = 2 -> 2000
      [] k = 3 -> 4000
      [] k = 4 -> 8000
      [] OTHER -> 10000

\* C11: the k-th backoff follows failed attempt k, lasts min(1000 * 2^(k-1),
\* 10000) ms, and no backoff follows attempt config.retries
C11_BackoffDelays ==
    \A r \in Reqs :
        /\ \A k \in 1 .. Len(delays[r]) :
              /\ delays[r][k] = ExpectedDelay(k)
              /\ k < config.retries
              /\ k <= Len(hist[r])
              /\ hist[r][k] \in {Failed, BodyLost, Responded(500)}
        /\ pc[r] = "sleep" => Len(delays[r]) = Len(hist[r])
        /\ pc[r] = "fetch" => Len(delays[r]) = Len(hist[r])
        /\ (pc[r] = "done" /\ hist[r] # <<>>) => Len(delays[r]) = Len(hist[r]) - 1

C11_Witness ==
    /\ config.retries = 7
    /\ pc[1] = "done"
    /\ Len(hist[1]) = 7
    /\ delays[1] = <<1000, 2000, 4000, 8000, 10000, 10000>>

----------------------------------------------------------------------------
(* Two concurrent calls of request() on one client *)

ConcConfigs ==
    [retries : MIN_RETRIES .. Min(ConcRetriesBound, MAX_RETRIES),
     timeout : {DEFAULT_TIMEOUT},
     baseUrl : {"https://api.xposedornot.com"},
     headers : {[k \in {"X-Api-Key"} |-> "k1"]}]

InitConc ==
    /\ \E cfg \in ConcConfigs : InitRequests(cfg)
    /\ ep = [r \in Reqs |-> NoEndpoint]
    /\ call = NoCall

NextConc ==
    /\ \E r \in Reqs :
          \/ Request(r)
          \/ TimerFire(r)
          \/ FetchReject(r)
          \/ FetchAbort(r)
          \/ \E status \in {200, 404, 500}, ct \in {Undef, Str("application/json")} :
                 FetchResponse(r, status, ct)
          \/ \E raw \in {"oops", "{\"ok\":true}"} : BodyRead(r, raw)
          \/ BodyFail(r)
          \/ SleepDone(r)
    /\ UNCHANGED <<ep, call, req>>

SpecConc == InitConc /\ [][NextConc]_vars

\* the local state of call r
Locals(r) ==
    <<pc[r], attempt[r], lastError[r], timer[r], aborted[r], resp[r], result[r],
      hist[r], delays[r], fired[r]>>

\* the settlement of call r as a solo run produces it from the outcomes of
\* its own fetches
SoloResult(r) ==
    LET n == Len(hist[r])
        last == hist[r][n]
    IN  IF n = 0 THEN Rejected(NetworkError("Request failed after 0 attempts: undefined", NoError))
        ELSE IF last = Aborted THEN
            Rejected(TimeoutError("Request timed out after "
                       \o ToString(config.timeout) \o "ms"))
        ELSE IF last \in {Failed, BodyLost} THEN
            Rejected(NetworkError("Request failed after " \o ToString(n)
                                    \o " attempts: fetch failed",
                                  Thrown(TransportError, n)))
        ELSE IF last.status = 304 THEN Resolved(EmptyObj)
        ELSE IF last.status \in 200 .. 299 THEN Resolved(LastData(r))
        ELSE Rejected(Thrown(handleErrorResponse(last.status, LastData(r)), n))

\* what a solo run makes of the fetch outcomes of call r
SoloRun(r) ==
    /\ attempt[r] = FetchesIssued(r)
    /\ attempt[r] <= config.retries
    /\ delays[r] = [k \in 1 .. Len(delays[r]) |-> ExpectedDelay(k)]
    /\ Len(delays[r]) = IF pc[r] = "done" /\ hist[r] # <<>> THEN Len(hist[r]) - 1
                        ELSE Len(hist[r])
    /\ pc[r] = "done" => result[r] = SoloResult(r)
    /\ pc[r] # "done" => result[r] = Pending
    /\ timer[r] = "fired" <=> aborted[r]
    /\ timer[r] = "fired" <=> fired[r].in # "none"

\* C15: concurrent calls are independent: a step changes the local state of
\* one call only, and each call stands where a solo run with the same fetch
\* outcomes stands
C15_CallsIndependent ==
    /\ [](\A r \in Reqs : SoloRun(r))
    /\ [][\E r \in Reqs : \A s \in Reqs \ {r} : Locals(s)' = Locals(s)]_vars

C15_Witness ==
    /\ config.retries = 2
    /\ pc[1] = "done"
    /\ pc[2] = "sleep"
    /\ hist[1] = <<Responded(500), Responded(200)>>
    /\ hist[2] = <<Failed>>
    /\ timer[1] = "cleared"
    /\ timer[2] = "fired"

----------------------------------------------------------------------------
(* The constructor of the facade: new XposedOrNot(config) *)

\* numbers that are no integers: n + f/10 with f in 1..9, NaN, Infinity
Frac(n, f) == [t |-> "number", v |-> n, frac |-> f]
NaN == [t |-> "number", special |-> "NaN"]
Infinity == [t |-> "number", special |-> "Infinity"]

\* typeof x === 'number' && Number.isFinite(x)
IsFiniteNumber(x) == x.t = "number" /\ "special" \notin DOMAIN x

\* typeof x === 'number' && Number.isInteger(x)
IsInteger(x) == IsFiniteNumber(x) /\ "frac" \notin DOMAIN x

\* x < n and x > n for a number x and an integer n
NumLt(x, n) == IsFiniteNumber(x) /\ x.v < n
NumGt(x, n) ==
    IF IsFiniteNumber(x)
      THEN IF "frac" \in DOMAIN x THEN x.v >= n ELSE x.v > n
      ELSE x = Infinity

\* `${x}` for a number
NumString(x) ==
    IF ~IsFiniteNumber(x) THEN x.special
    ELSE IF "frac" \in DOMAIN x THEN ToString(x.v) \o "." \o ToString(x.frac)
    ELSE ToString(x.v)

\* a || b
Coalesce_Or(a, b) == IF Truthy(a) THEN a ELSE b

\* a ?? b
Coalesce(a, b) == IF a.t \in {"undefined", "null"} THEN b ELSE a

\* { ...a, ...b } for two header maps
Spread(a, b) == [k \in DOMAIN a \cup DOMAIN b |-> IF k \in DOMAIN b THEN b[k] ELSE a[k]]

ValidationError(message, field) ==
    [name |-> "ValidationError", message |-> message, code |-> "VALIDATION_ERROR",
     statusCode |-> Undef, field |-> field]

NoHeaders == [k \in {} |-> ""]

DEFAULT_CONFIG ==
    [baseUrl |-> Str("https://api.xposedornot.com"), timeout |-> Num(DEFAULT_TIMEOUT),
     retries |-> Num(3), headers |-> NoHeaders]

\* the strings new URL() accepts, with the protocol of the parsed URL
UrlProtocol(url) ==
    CASE url = "https://api.xposedornot.com" -> "https:"
      [] url = "https://example.com/api/" -> "https:"
      [] url = "HTTPS://EXAMPLE.COM" -> "https:"
      [] url = "http://api.example.com" -> "http:"
      [] url = "ftp://example.com" -> "ftp:"
      [] OTHER -> "invalid"

\* a validation that passed, a validation that threw
Passed == [thrown |-> FALSE]
Threw(e) == [thrown |-> TRUE, error |-> e]

validateBaseUrl(baseUrl) ==
    IF UrlProtocol(baseUrl.v) = "invalid"
      THEN Threw(ValidationError("Invalid baseUrl: \"" \o baseUrl.v
                                   \o "\" is not a valid URL", "baseUrl"))
    ELSE IF UrlProtocol(baseUrl.v) # "https:"
      THEN Threw(ValidationError("Invalid baseUrl: must use HTTPS protocol (got \""
                                   \o UrlProtocol(baseUrl.v) \o "\")", "baseUrl"))
    ELSE Passed

\* validateTimeout without the upper limit
validateTimeout_NoMax(timeout) ==
    IF ~IsFiniteNumber(timeout)
      THEN Threw(ValidationError("Invalid timeout: must be a finite number", "timeout"))
    ELSE IF NumLt(timeout, MIN_TIMEOUT)
      THEN Threw(ValidationError("Invalid timeout: must be between 1000ms and 300000ms (got "
                                   \o NumString(timeout) \o "ms)", "timeout"))
    ELSE Passed

validateTimeout(timeout) ==
    IF ~IsFiniteNumber(timeout)
      THEN Threw(ValidationError("Invalid timeout: must be a finite number", "timeout"))
    ELSE IF NumLt(timeout, MIN_TIMEOUT) \/ NumGt(timeout, MAX_TIMEOUT)
      THEN Threw(ValidationError("Invalid timeout: must be between 1000ms and 300000ms (got "
                                   \o NumString(timeout) \o "ms)", "timeout"))
    ELSE Passed

\* validateRetries without the integer test
validateRetries_NoInteger(retries) ==
    IF ~IsFiniteNumber(retries)
      THEN Threw(ValidationError("Invalid retries: must be an integer", "retries"))
    ELSE IF NumLt(retries, MIN_RETRIES) \/ NumGt(retries, MAX_RETRIES)
      THEN Threw(ValidationError("Invalid retries: must be between 0 and 10 (got "
                                   \o NumString(retries) \o ")", "retries"))
    ELSE Passed

validateRetries(retries) ==
    IF ~IsInteger(retries)
      THEN Threw(ValidationError("Invalid retries: must be an integer", "retries"))
    ELSE IF NumLt(retries, MIN_RETRIES) \/ NumGt(retries, MAX_RETRIES)
      THEN Threw(ValidationError("Invalid retries: must be between 0 and 10 (got "
                                   \o NumString(retries) \o ")", "retries"))
    ELSE Passed

\* what the constructor produces: a client holding a configuration, or a throw
Client(cfg) == [kind |-> "client", config |-> cfg]

resolveConfig(cfg) ==
    LET baseUrl == Coalesce(cfg.baseUrl, DEFAULT_CONFIG.baseUrl)
        timeout == Coalesce(cfg.timeout, DEFAULT_CONFIG.timeout)
        retries == Coalesce(cfg.retries, DEFAULT_CONFIG.retries)
    IN  IF validateBaseUrl(baseUrl).thrown THEN Rejected(validateBaseUrl(baseUrl).error)
        ELSE IF validateTimeout(timeout).thrown THEN Rejected(validateTimeout(timeout).error)
        ELSE IF validateRetries(retries).thrown THEN Rejected(validateRetries(retries).error)
        ELSE Client([baseUrl |-> baseUrl, timeout |-> timeout, retries |-> retries,
                     headers |-> Spread(DEFAULT_CONFIG.headers,
                                        IF cfg.headers.t = "object" THEN cfg.headers.o
                                        ELSE NoHeaders)])

\* the constructor arguments explored
CtorBaseUrls ==
    {Undef, Null, Str("https://api.xposedornot.com"), Str("https://example.com/api/"),
     Str("HTTPS://EXAMPLE.COM"), Str("http://api.example.com"), Str("ftp://example.com"),
     Str("not-a-url"), Str("")}
CtorTimeouts ==
    {Undef, Num(-1), Num(0), Num(100), Num(999), Frac(999, 9), Num(1000), Frac(1000, 5),
     Num(5000), Num(300000), Frac(300000, 1), Num(300001), Num(999999), NaN, Infinity,
     Str("5000")}
CtorRetries ==
    {Undef, Num(-1), Num(0), Num(3), Frac(3, 5), Num(5), Num(10), Num(11), Num(20), NaN,
     Infinity, Str("3")}
CtorHeaders == {Undef, Obj([k \in {"x-api-key"} |-> "secret"])}

CtorArgs ==
    [baseUrl : CtorBaseUrls, timeout : CtorTimeouts, retries : CtorRetries,
     headers : CtorHeaders]

\* new XposedOrNot(config) runs
Construct ==
    /\ call.fn = "XposedOrNot"
    /\ call.st = "called"
    /\ call' = [call EXCEPT !.st = "returned", !.out = resolveConfig(call.arg)]
    /\ UNCHANGED <<reqVars, ep, req>>

InitCtor ==
    /\ InitRequests([retries |-> 3, timeout |-> DEFAULT_TIMEOUT])
    /\ ep = [r \in Reqs |-> NoEndpoint]
    /\ \E arg \in CtorArgs :
          call = [fn |-> "XposedOrNot", st |-> "called", arg |-> arg, out |-> Pending]

NextCtor == Construct

SpecCtor == InitCtor /\ [][NextCtor]_vars

\* the arguments the constructor works with, defaults filled in
EffBaseUrl == Coalesce(call.arg.baseUrl, Str("https://api.xposedornot.com"))
EffTimeout == Coalesce(call.arg.timeout, Num(30000))
EffRetries == Coalesce(call.arg.retries, Num(3))

Constructed == call.fn = "XposedOrNot" /\ call.st = "returned"

\* the explored values that are no parseable https URL, no timeout within
\* 1000..300000, no integer within 0..10
BadBaseUrls ==
    {Str("http://api.example.com"), Str("ftp://example.com"), Str("not-a-url"), Str("")}
BadTimeouts ==
    {Num(-1), Num(0), Num(100), Num(999), Frac(999, 9), Frac(300000, 1), Num(300001),
     Num(999999), Infinity}
BadRetries ==
    {Num(-1), Frac(3, 5), Num(11), Num(20), NaN, Infinity, Str("3")}

\* C16: the constructor throws a ValidationError and yields no client for a
\* bad baseUrl, timeout or retries, and accepts timeout = 1000 and retries = 0
C16_EagerValidation ==
    Constructed =>
        /\ (EffBaseUrl \in BadBaseUrls \/ EffTimeout \in BadTimeouts
              \/ EffRetries \in BadRetries) =>
               /\ call.out.kind = "error"
               /\ call.out.error.name = "ValidationError"
               /\ call.out.error.code = "VALIDATION_ERROR"
               /\ call.out.error.field \in {"baseUrl", "timeout", "retries"}
        /\ EffBaseUrl \in BadBaseUrls => call.out.error.field = "baseUrl"
        /\ (EffBaseUrl \notin BadBaseUrls /\ EffTimeout \in {Num(1000), Num(300000)}
              /\ EffRetries \in {Num(0), Num(10)}) =>
               /\ call.out.kind = "client"
               /\ call.out.config.timeout = EffTimeout
               /\ call.out.config.retries = EffRetries

C16_Witness ==
    /\ Constructed
    /\ call.arg.baseUrl = Undef
    /\ call.arg.timeout = Num(1000)
    /\ call.arg.retries = Frac(3, 5)
    /\ call.out.kind = "error"
    /\ call.out.error.field = "retries"

\* C17 as claimed: every constructed client holds an https baseUrl, an
\* integer timeout within 1000..300000 and an integer retries within 0..10
C17_IntegerTimeout ==
    (Constructed /\ call.out.kind = "client") =>
        /\ call.out.config.baseUrl \notin BadBaseUrls
        /\ DOMAIN call.out.config.timeout = {"t", "v"}
        /\ call.out.config.timeout.v \in MIN_TIMEOUT .. MAX_TIMEOUT
        /\ DOMAIN call.out.config.retries = {"t", "v"}
        /\ call.out.config.retries.v \in MIN_RETRIES .. MAX_RETRIES

\* C17 amended: every constructed client holds an https baseUrl, a finite
\* timeout within 1000..300000 that need not be an integer, and an integer
\* retries within 0..10
C17_FiniteTimeout ==
    (Constructed /\ call.out.kind = "client") =>
        /\ call.out.config.baseUrl \in
               {Str("https://api.xposedornot.com"), Str("https://example.com/api/"),
                Str("HTTPS://EXAMPLE.COM")}
        /\ call.out.config.timeout.t = "number"
        /\ "special" \notin DOMAIN call.out.config.timeout
        /\ call.out.config.timeout.v >= 1000
        /\ call.out.config.timeout.v <= 300000
        /\ call.out.config.timeout # Frac(300000, 1)
        /\ DOMAIN call.out.config.retries = {"t", "v"}
        /\ call.out.config.retries.t = "number"
        /\ call.out.config.retries.v \in 0 .. 10

C17_Witness ==
    /\ Constructed
    /\ call.out.kind = "client"
    /\ call.out.config.timeout = Frac(1000, 5)
    /\ call.out.config.retries = Num(10)

----------------------------------------------------------------------------
(* The constructors of the error classes *)

\* a parameter with a default value
OrDefault(a, dflt) == IF a = Undef THEN dflt ELSE a.v

\* new cls(...) with the arguments a.message, a.a2, a.a3
NewError(cls, a) ==
    CASE cls = "RateLimitError" ->
             RateLimitError(OrDefault(a.message,
                                "Rate limit exceeded. Please slow down your requests."),
                            a.a2)
      [] cls = "NotFoundError" ->
             NotFoundError(OrDefault(a.message, "Resource not found"))
      [] cls = "AuthenticationError" ->
             AuthenticationError(OrDefault(a.message,
                                     "Authentication failed. Check your API key."))
      [] cls = "ValidationError" -> ValidationError(a.message.v, a.a2)
      [] cls = "NetworkError" ->
             NetworkError(OrDefault(a.message, "A network error occurred"), a.a2)
      [] cls = "TimeoutError" -> TimeoutError(OrDefault(a.message, "Request timed out"))
      [] cls = "ApiError" -> ApiError(a.message.v, a.a2, a.a3)

\* the messages explored; some repeat a code or a status
DefinedMessages == {Str(""), Str("boom"), Str("NOT_FOUND"), Str("API_ERROR"), Str("429")}
Messages == {Undef} \cup DefinedMessages

ErrorCalls ==
    [fn : {"RateLimitError"}, message : Messages, a2 : {Undef, Num(0), Num(60), Num(404)},
     a3 : {Undef}]
    \cup [fn : {"NotFoundError", "AuthenticationError", "TimeoutError"},
          message : Messages, a2 : {Undef}, a3 : {Undef}]
    \cup [fn : {"ValidationError"}, message : DefinedMessages,
          a2 : {Undef, Str("email"), Str("code")}, a3 : {Undef}]
    \cup [fn : {"NetworkError"}, message : Messages,
          a2 : {Undef, TransportError, NotFoundError("gone")}, a3 : {Undef}]
    \cup [fn : {"ApiError"}, message : DefinedMessages, a2 : {400, 401, 404, 429, 500},
          a3 : {Undef, Null, Str("NOT_FOUND")}]

ConstructError ==
    /\ call.fn \in {"RateLimitError", "NotFoundError", "AuthenticationError",
                    "ValidationError", "NetworkError", "TimeoutError", "ApiError"}
    /\ call.st = "called"
    /\ call' = [call EXCEPT !.st = "returned", !.out = NewError(call.fn, call.arg)]
    /\ UNCHANGED <<reqVars, ep, req>>

InitErrors ==
    /\ InitRequests([retries |-> 3, timeout |-> DEFAULT_TIMEOUT])
    /\ ep = [r \in Reqs |-> NoEndpoint]
    /\ \E c \in ErrorCalls :
          call = [fn |-> c.fn, st |-> "called",
                  arg |-> [message |-> c.message, a2 |-> c.a2, a3 |-> c.a3],
                  out |-> Pending]

NextErrors == ConstructError

SpecErrors == InitErrors /\ [][NextErrors]_vars

\* the documented code of each error class
CodeOf ==
    [c \in {"RateLimitError", "NotFoundError", "AuthenticationError", "ValidationError",
            "NetworkError", "TimeoutError", "ApiError"} |->
       CASE c = "RateLimitError" -> "RATE_LIMIT_EXCEEDED"
         [] c = "NotFoundError" -> "NOT_FOUND"
         [] c = "AuthenticationError" -> "AUTHENTICATION_FAILED"
         [] c = "ValidationError" -> "VALIDATION_ERROR"
         [] c = "NetworkError" -> "NETWORK_ERROR"
         [] c = "TimeoutError" -> "TIMEOUT"
         [] c = "ApiError" -> "API_ERROR"]

\* C18: whatever its arguments, an error of each class has the code and the
\* status of its class, and the code tells the class
C18_FixedCodes ==
    (call.fn \in DOMAIN CodeOf /\ call.st = "returned") =>
        /\ call.out.name = call.fn
        /\ call.out.code = CodeOf[call.fn]
        /\ \A c \in DOMAIN CodeOf : call.out.code = CodeOf[c] => c = call.fn
        /\ call.out.statusCode =
               CASE call.fn = "RateLimitError" -> Num(429)
                 [] call.fn = "NotFoundError" -> Num(404)
                 [] call.fn = "AuthenticationError" -> Num(401)
                 [] call.fn = "ApiError" -> Num(call.arg.a2)
                 [] OTHER -> Undef

C18_Witness ==
    /\ call.fn = "RateLimitError"
    /\ call.st = "returned"
    /\ call.arg.message = Str("NOT_FOUND")
    /\ call.arg.a2 = Num(404)
    /\ call.out.code = "RATE_LIMIT_EXCEEDED"
    /\ call.out.retryAfter = Num(404)

----------------------------------------------------------------------------
(* Validation and normalisation of e-mail addresses *)

\* \s
IsSpace(c) == c \in {" ", "\t", "\n"}

RECURSIVE TrimStart(_)
TrimStart(cs) ==
    IF cs # <<>> /\ IsSpace(Head(cs)) THEN TrimStart(Tail(cs)) ELSE cs

RECURSIVE TrimEnd(_)
TrimEnd(cs) ==
    IF cs # <<>> /\ IsSpace(cs[Len(cs)]) THEN TrimEnd(SubSeq(cs, 1, Len(cs) - 1)) ELSE cs

\* String.prototype.trim
Trim(cs) == TrimEnd(TrimStart(cs))

\* /^[^\s@]+@[^\s@]+\.[^\s@]+$/ : an "@" at a, a "." at d, at least one
\* character before a, between a and d and after d, and no space and no
\* other "@" anywhere
EMAIL_REGEX(cs) ==
    \E a \in 1 .. Len(cs), d \in 1 .. Len(cs) :
        /\ cs[a] = "@"
        /\ cs[d] = "."
        /\ 1 < a
        /\ a + 1 < d
        /\ d < Len(cs)
        /\ \A i \in (1 .. Len(cs)) \ {a} : ~IsSpace(cs[i]) /\ cs[i] # "@"

\* validateEmail without the format test
validateEmail_NoFormat(email) ==
    IF TypeOf(email) # "string"
      THEN Threw(ValidationError("Email must be a string", "email"))
    ELSE IF Trim(email.cs) = <<>>
      THEN Threw(ValidationError("Email is required", "email"))
    ELSE IF Len(Trim(email.cs)) > 254
      THEN Threw(ValidationError("Email is too long (max 254 characters)", "email"))
    ELSE Passed

validateEmail(email) ==
    IF TypeOf(email) # "string"
      THEN Threw(ValidationError("Email must be a string", "email"))
    ELSE IF Trim(email.cs) = <<>>
      THEN Threw(ValidationError("Email is required", "email"))
    ELSE IF ~EMAIL_REGEX(Trim(email.cs))
      THEN Threw(ValidationError("Invalid email format", "email"))
    ELSE IF Len(Trim(email.cs)) > 254
      THEN Threw(ValidationError("Email is too long (max 254 characters)", "email"))
    ELSE Passed

\* toLowerCase on one character
Lower(c) ==
    CASE c = "A" -> "a"
      [] c = "B" -> "b"
      [] c = "C" -> "c"
      [] OTHER -> c

\* email.trim() without toLowerCase()
normalizeEmail_TrimOnly(cs) == Trim(cs)

\* email.trim().toLowerCase()
normalizeEmail(cs) == [i \in 1 .. Len(Trim(cs)) |-> Lower(Trim(cs)[i])]

\* encodeURIComponent on one character
EncodeChar(c) ==
    CASE c = "@" -> <<"%", "4", "0">>
      [] c = "/" -> <<"%", "2", "F">>
      [] c = "+" -> <<"%", "2", "B">>
      [] c = "?" -> <<"%", "3", "F">>
      [] c = "#" -> <<"%", "2", "3">>
      [] c = " " -> <<"%", "2", "0">>
      [] c = "\\" -> <<"%", "5", "C">>
      [] c = "&" -> <<"%", "2", "6">>
      [] c = "=" -> <<"%", "3", "D">>
      [] c = "%" -> <<"%", "2", "5">>
      [] OTHER -> <<c>>

RECURSIVE encodeURIComponent(_)
encodeURIComponent(cs) ==
    IF cs = <<>> THEN <<>> ELSE EncodeChar(Head(cs)) \o encodeURIComponent(Tail(cs))

\* the normalised address put into the path as it is
sanitizeEmailForPath_NoEncoding(cs) == normalizeEmail(cs)

\* encodeURIComponent(normalizeEmail(email))
sanitizeEmailForPath(cs) == encodeURIComponent(normalizeEmail(cs))

----------------------------------------------------------------------------
(* The endpoint functions checkEmail and getBreachAnalytics *)

\* what `'breaches' in response` and a property read of null throw
InTypeError ==
    [name |-> "TypeError", message |-> "Cannot use 'in' operator to search for 'breaches'"]
NullTypeError ==
    [name |-> "TypeError", message |-> "Cannot read properties of null"]

\* 'breaches' in response && Array.isArray(response.breaches)
isFoundResponse(response) ==
    /\ response.t = "object"
    /\ "breaches" \in DOMAIN response.o
    /\ response.o["breaches"].t = "array"

\* Array.prototype.flat
RECURSIVE Flat(_)
Flat(a) ==
    IF a = <<>> THEN <<>>
    ELSE (IF Head(a).t = "array" THEN Head(a).a ELSE <<Head(a)>>) \o Flat(Tail(a))

\* x.length > 0
LengthPositive(x) ==
    CASE x.t = "array" -> Len(x.a) > 0
      [] x.t = "string" -> Truthy(x)
      [] x.t = "object" -> Get(x, "length").t = "number" /\ Get(x, "length").v > 0
      [] OTHER -> FALSE

\* checkEmail whose catch turns every error of the taxonomy into "not found"
checkEmailSettle_AnyError(email, res) ==
    IF res.kind = "error"
      THEN IF IsXposedOrNotError(res.error)
             THEN Resolved([email |-> email, found |-> FALSE, breaches |-> <<>>])
             ELSE Rejected(res.error)
    ELSE IF res.value.t \notin {"object", "array"} THEN Rejected(InTypeError)
    ELSE IF isFoundResponse(res.value)
      THEN Resolved([email |-> Get(res.value, "email"), found |-> TRUE,
                     breaches |-> Flat(Get(res.value, "breaches").a)])
    ELSE Resolved([email |-> Get(res.value, "email"), found |-> FALSE, breaches |-> <<>>])

\* checkEmail from the point where http.request has settled with res
checkEmailSettle(email, res) ==
    IF res.kind = "error"
      THEN IF res.error.name = "NotFoundError"
             THEN Resolved([email |-> email, found |-> FALSE, breaches |-> <<>>])
             ELSE Rejected(res.error)
    ELSE IF res.value.t \notin {"object", "array"} THEN Rejected(InTypeError)
    ELSE IF isFoundResponse(res.value)
      THEN Resolved([email |-> Get(res.value, "email"), found |-> TRUE,
                     breaches |-> Flat(Get(res.value, "breaches").a)])
    ELSE Resolved([email |-> Get(res.value, "email"), found |-> FALSE, breaches |-> <<>>])

\* getBreachAnalytics deciding found from the breaches alone
getBreachAnalyticsSettle_BreachesOnly(email, res) ==
    IF res.kind = "error"
      THEN IF res.error.name = "NotFoundError"
             THEN Resolved([email |-> email, found |-> FALSE, analytics |-> Null])
             ELSE Rejected(res.error)
    ELSE IF res.value.t \in {"null", "undefined"} THEN Rejected(NullTypeError)
    ELSE LET exposed == Get(res.value, "ExposedBreaches")
             breachDetails == IF exposed.t \in {"undefined", "null"} THEN Undef
                              ELSE Get(exposed, "breaches_details")
         IN  IF breachDetails.t = "null" THEN Rejected(NullTypeError)
             ELSE Resolved([email |-> email,
                            found |-> breachDetails # Undef /\ LengthPositive(breachDetails),
                            analytics |-> res.value])

\* getBreachAnalytics from the point where http.request has settled with res
getBreachAnalyticsSettle(email, res) ==
    IF res.kind = "error"
      THEN IF res.error.name = "NotFoundError"
             THEN Resolved([email |-> email, found |-> FALSE, analytics |-> Null])
             ELSE Rejected(res.error)
    ELSE IF res.value.t \in {"null", "undefined"} THEN Rejected(NullTypeError)
    ELSE LET exposed == Get(res.value, "ExposedBreaches")
             breachDetails == IF exposed.t \in {"undefined", "null"} THEN Undef
                              ELSE Get(exposed, "breaches_details")
             pastes == Get(res.value, "ExposedPastes")
         IN  IF breachDetails.t = "null" THEN Rejected(NullTypeError)
             ELSE Resolved([email |-> email,
                            found |-> \/ (breachDetails # Undef /\ LengthPositive(breachDetails))
                                      \/ (pastes.t = "array" /\ Len(pastes.a) > 0),
                            analytics |-> res.value])

\* the e-mail arguments explored
Emails ==
    {Chars(<<"a", "@", "b", ".", "c">>), Chars(<<" ", "A", "@", "b", ".", "c", " ">>),
     Chars(<<"a", "/", "@", "b", ".", "c">>), Chars(<<"a", "@", "b">>),
     Chars(<<"a", " ", "@", "b", ".", "c">>), Chars(<<"a", "@", "@", "b", ".", "c">>),
     Chars(<<"@", "b", ".", "c">>), Chars(<<"a", "@", "b", ".">>), Chars(<<" ">>),
     Chars(<<>>), Num(5), Null, Undef}

\* checkEmail(http, email, options) up to its first await
checkEmail(r, email, includeDetails) ==
    /\ ep[r].st = "idle"
    /\ pc[r] = "idle"
    /\ IF validateEmail(email).thrown
         THEN /\ ep' = [ep EXCEPT ![r] =
                    [fn |-> "checkEmail", st |-> "done", email |-> email,
                     path |-> <<>>, params |-> NoHeaders,
                     out |-> Rejected(validateEmail(email).error)]]
              /\ UNCHANGED reqVars
         ELSE /\ ep' = [ep EXCEPT ![r] =
                    [fn |-> "checkEmail", st |-> "waiting", email |-> email,
                     path |-> <<"/v1/check-email/">> \o sanitizeEmailForPath(email.cs),
                     params |-> IF Truthy(includeDetails)
                                  THEN [k \in {"include_details"} |-> includeDetails]
                                  ELSE NoHeaders,
                     out |-> Pending]]
              /\ Request(r)
    /\ UNCHANGED <<call, req>>

\* getBreachAnalytics(http, email, options) up to its first await
getBreachAnalytics(r, email, token) ==
    /\ ep[r].st = "idle"
    /\ pc[r] = "idle"
    /\ IF validateEmail(email).thrown
         THEN /\ ep' = [ep EXCEPT ![r] =
                    [fn |-> "getBreachAnalytics", st |-> "done", email |-> email,
                     path |-> <<>>, params |-> NoHeaders,
                     out |-> Rejected(validateEmail(email).error)]]
              /\ UNCHANGED reqVars
         ELSE /\ ep' = [ep EXCEPT ![r] =
                    [fn |-> "getBreachAnalytics", st |-> "waiting", email |-> email,
                     path |-> <<"/v1/breach-analytics">>,
                     params |-> IF Truthy(token)
                                  THEN [k \in {"email", "token"} |->
                                          IF k = "email" THEN Chars(normalizeEmail(email.cs))
                                          ELSE token]
                                  ELSE [k \in {"email"} |-> Chars(normalizeEmail(email.cs))],
                     out |-> Pending]]
              /\ Request(r)
    /\ UNCHANGED <<call, req>>

\* [a-zA-Z] and [a-zA-Z0-9] over the characters explored
IsLetter(c) == c \in {"a", "b", "c", "d", "o", "m", "A", "B", "C"}
IsAlnum(c) == IsLetter(c) \/ c \in {"0", "1", "5"}

\* /^[a-zA-Z0-9][a-zA-Z0-9-_.]+\.[a-zA-Z]{2,}$/ : d is the dot before the
\* final run of at least two letters, with at least one character of the
\* class between the first character and that dot
domainRegex(cs) ==
    \E d \in 1 .. Len(cs) :
        /\ cs[d] = "."
        /\ d >= 3
        /\ Len(cs) - d >= 2
        /\ IsAlnum(cs[1])
        /\ \A i \in 2 .. d - 1 : IsAlnum(cs[i]) \/ cs[i] \in {"-", "_", "."}
        /\ \A i \in d + 1 .. Len(cs) : IsLetter(cs[i])

validateDomain(domain) ==
    IF TypeOf(domain) # "string"
      THEN Threw(ValidationError("Domain must be a string", "domain"))
    ELSE IF Trim(domain.cs) = <<>>
      THEN Threw(ValidationError("Domain is required", "domain"))
    ELSE IF ~domainRegex(Trim(domain.cs))
      THEN Threw(ValidationError("Invalid domain format", "domain"))
    ELSE Passed

\* the domain filters and breach ids explored
Domains ==
    {Undef, Chars(<<"a", "b", ".", "c", "c">>), Chars(<<"a", " ", "b">>),
     Chars(<<"a", "b">>), Chars(<<>>), Num(5)}
BreachIds == {Undef, Chars(<<"a", "d", "o">>)}

\* the params object getBreaches builds
BreachesParams(domain, breachId) ==
    [k \in (IF Truthy(domain) THEN {"domain"} ELSE {})
             \cup (IF Truthy(breachId) THEN {"breach_id"} ELSE {}) |->
        IF k = "domain" THEN domain ELSE breachId]

\* getBreaches(http, options) up to its await
getBreaches(r, domain, breachId) ==
    /\ ep[r].st = "idle"
    /\ pc[r] = "idle"
    /\ ep' = [ep EXCEPT ![r] =
           [fn |-> "getBreaches", st |-> "waiting", domain |-> domain,
            breachId |-> breachId, path |-> <<"/v1/breaches">>,
            params |-> BreachesParams(domain, breachId), out |-> Pending]]
    /\ Request(r)
    /\ UNCHANGED <<call, req>>

\* getBreaches returning the field as it is
getBreachesSettle_NoDefault(res) ==
    IF res.kind = "error" THEN Rejected(res.error)
    ELSE IF res.value.t \in {"null", "undefined"} THEN Rejected(NullTypeError)
    ELSE Resolved(Get(res.value, "exposedBreaches"))

\* getBreaches from the point where http.request has settled with res
getBreachesSettle(res) ==
    IF res.kind = "error" THEN Rejected(res.error)
    ELSE IF res.value.t \in {"null", "undefined"} THEN Rejected(NullTypeError)
    ELSE Resolved(Coalesce(Get(res.value, "exposedBreaches"), Arr(<<>>)))

\* http.request has settled: the rest of the endpoint function runs
EndpointSettles(r) ==
    /\ ep[r].st = "waiting"
    /\ pc[r] = "done"
    /\ ep' = [ep EXCEPT ![r].st = "done",
                        ![r].out = CASE ep[r].fn = "checkEmail" ->
                                            checkEmailSettle(ep[r].email, result[r])
                                     [] ep[r].fn = "getBreachAnalytics" ->
                                            getBreachAnalyticsSettle(ep[r].email, result[r])
                                     [] ep[r].fn = "getBreaches" ->
                                            getBreachesSettle(result[r])]
    /\ UNCHANGED <<reqVars, call, req>>

EndpointConfigs ==
    [retries : MIN_RETRIES .. Min(EndpointRetriesBound, MAX_RETRIES),
     timeout : {DEFAULT_TIMEOUT}]

\* the responses explored under the endpoint functions
EndpointBodies ==
    {"oops", "null", "{\"Error\":\"Not found\",\"email\":\"a@b.c\"}",
     "{\"breaches\":[[\"Adobe\",\"Canva\"],[\"Zynga\"]],\"email\":\"a@b.c\"}",
     "{\"exposedBreaches\":[{\"breachID\":\"Adobe\"}]}",
     "{\"exposedBreaches\":null}",
     "{\"ExposedBreaches\":{\"breaches_details\":[{\"breach\":\"Adobe\"}]},\"ExposedPastes\":null}",
     "{\"ExposedBreaches\":{\"breaches_details\":[]},\"ExposedPastes\":[]}",
     "{\"ExposedBreaches\":null,\"ExposedPastes\":[{\"pasteId\":\"p1\"}]}"}

InitEndpoint ==
    /\ \E cfg \in EndpointConfigs : InitRequests(cfg)
    /\ ep = [r \in Reqs |-> NoEndpoint]
    /\ call = NoCall

NextEndpoint ==
    \E r \in Solo :
        \/ \E email \in Emails, includeDetails \in {Undef, Bool(TRUE)} :
               checkEmail(r, email, includeDetails)
        \/ \E email \in Emails, token \in {Undef, Str("tok")} :
               getBreachAnalytics(r, email, token)
        \/ \E domain \in Domains, breachId \in BreachIds :
               getBreaches(r, domain, breachId)
        \/ EndpointSettles(r)
        \/ /\ \/ TimerFire(r)
              \/ FetchReject(r)
              \/ FetchAbort(r)
              \/ \E status \in {200, 304, 401, 404, 429, 500},
                    ct \in {Undef, Str("application/json")} :
                     FetchResponse(r, status, ct)
              \/ \E raw \in EndpointBodies : BodyRead(r, raw)
              \/ BodyFail(r)
              \/ SleepDone(r)
           /\ UNCHANGED <<ep, call, req>>

SpecEndpoint == InitEndpoint /\ [][NextEndpoint]_vars

\* the result both endpoint functions build in their catch block
NotFoundResult(fn, email) ==
    IF fn = "checkEmail"
      THEN [email |-> email, found |-> FALSE, breaches |-> <<>>]
      ELSE [email |-> email, found |-> FALSE, analytics |-> Null]

\* the classes request can throw other than NotFoundError
PropagatedClasses ==
    {"RateLimitError", "AuthenticationError", "ApiError", "NetworkError", "TimeoutError"}

\* C19: once checkEmail or getBreachAnalytics has settled after the executor
\* threw, a NotFoundError has become the result found = false with
\* breaches = [] (analytics = null) and the e-mail exactly as the caller
\* passed it, every RateLimit, Authentication, Api, Network or Timeout error
\* has been rethrown as the same object, and no error other than a
\* NotFoundError has been turned into a value.
C19_OnlyNotFoundConverted ==
    \A r \in Reqs :
        (/\ ep[r].fn \in {"checkEmail", "getBreachAnalytics"}
         /\ ep[r].st = "done"
         /\ result[r].kind = "error") =>
            /\ result[r].error.name = "NotFoundError" =>
                   ep[r].out = Resolved(NotFoundResult(ep[r].fn, ep[r].email))
            /\ result[r].error.name \in PropagatedClasses =>
                   ep[r].out = Rejected(result[r].error)
            /\ ep[r].out.kind = "value" => result[r].error.name = "NotFoundError"

\* a call with an e-mail that normalisation changes has settled after a 404
\* and the input came back untouched; another class was rethrown
C19_Witness ==
    /\ ep[1].st = "done"
    /\ ep[1].fn = "getBreachAnalytics"
    /\ ep[1].email = Chars(<<" ", "A", "@", "b", ".", "c", " ">>)
    /\ hist[1] = <<Responded(404)>>
    /\ result[1].kind = "error"
    /\ ep[1].out = Resolved([email |-> Chars(<<" ", "A", "@", "b", ".", "c", " ">>),
                             found |-> FALSE, analytics |-> Null])

\* the arguments of Emails that validateEmail rejects
InvalidEmails ==
    {Chars(<<"a", "@", "b">>), Chars(<<"a", " ", "@", "b", ".", "c">>),
     Chars(<<"a", "@", "@", "b", ".", "c">>), Chars(<<"@", "b", ".", "c">>),
     Chars(<<"a", "@", "b", ".">>), Chars(<<" ">>), Chars(<<>>), Num(5), Null, Undef}

\* C20: a call of checkEmail or getBreachAnalytics with an e-mail that
\* validateEmail rejects has failed with a ValidationError for the field
\* email, and the executor was never entered: no fetch was issued, no timer
\* started, nothing recorded.
C20_ValidationFirst ==
    \A r \in Reqs :
        (/\ ep[r].fn \in {"checkEmail", "getBreachAnalytics"}
         /\ ep[r].email \in InvalidEmails) =>
            /\ ep[r].st = "done"
            /\ ep[r].out.kind = "error"
            /\ ep[r].out.error.name = "ValidationError"
            /\ ep[r].out.error.field = "email"
            /\ pc[r] = "idle"
            /\ FetchesIssued(r) = 0
            /\ attempt[r] = 0
            /\ timer[r] = "none"
            /\ hist[r] = <<>>

\* checkEmail has rejected a string without a top-level domain
C20_Witness ==
    /\ ep[1].st = "done"
    /\ ep[1].fn = "checkEmail"
    /\ ep[1].email = Chars(<<"a", "@", "b">>)
    /\ ep[1].out = Rejected(ValidationError("Invalid email format", "email"))
    /\ FetchesIssued(1) = 0

\* C21: every endpoint function validates its input before it enters the
\* executor: a call of checkEmail or getBreachAnalytics with an e-mail that
\* validateEmail rejects, and a call of getBreaches with a domain filter that
\* validateDomain rejects, has failed with a ValidationError without a fetch.
C21_ValidationBeforeExecutor ==
    \A r \in Reqs :
        /\ (/\ ep[r].fn \in {"checkEmail", "getBreachAnalytics"}
            /\ validateEmail(ep[r].email).thrown) =>
               /\ ep[r].out.kind = "error"
               /\ ep[r].out.error.name = "ValidationError"
               /\ FetchesIssued(r) = 0
        /\ (/\ ep[r].fn = "getBreaches"
            /\ ep[r].domain # Undef
            /\ validateDomain(ep[r].domain).thrown) =>
               /\ ep[r].out.kind = "error"
               /\ ep[r].out.error.name = "ValidationError"
               /\ FetchesIssued(r) = 0

\* C22: whenever a facade method has rejected, the error is one of the
\* taxonomy and carries a code and a message, also after the executor
\* resolved with {} (304), null (undecodable JSON) or a raw text.
C22_FailuresInTaxonomy ==
    \A r \in Reqs :
        (ep[r].st = "done" /\ ep[r].out.kind = "error") =>
            /\ IsXposedOrNotError(ep[r].out.error)
            /\ {"code", "message"} \subseteq DOMAIN ep[r].out.error

----------------------------------------------------------------------------
(* What request() hands to fetch: URL, headers and body *)

\* String(value)
String(v) ==
    CASE v.t = "string" -> v.v
      [] v.t = "boolean" -> IF v.v THEN "true" ELSE "false"
      [] v.t = "number" -> NumString(v)
      [] v.t = "null" -> "null"
      [] v.t = "undefined" -> "undefined"

\* a params object: its own enumerable entries in insertion order
Entries(e) == [t |-> "object", e |-> e]

\* new URL(endpoint, baseUrl) for the endpoints explored
Endpoints == {"/v1/breaches", "/v1/breaches?domain=x.com&domain=y.org"}
URL(endpoint, baseUrl) ==
    [origin |-> baseUrl, pathname |-> "/v1/breaches",
     search |-> IF endpoint = "/v1/breaches" THEN <<>>
                ELSE << <<"domain", "x.com">>, <<"domain", "y.org">> >>]

\* the list without its pairs named k
RECURSIVE Without(_, _)
Without(list, k) ==
    IF list = <<>> THEN <<>>
    ELSE (IF Head(list)[1] = k THEN <<>> ELSE <<Head(list)>>) \o Without(Tail(list), k)

\* URLSearchParams.set: the first pair named k takes the value and the other
\* pairs named k are removed; without such a pair one is appended
SearchParamsSet(list, k, v) ==
    IF \E i \in 1 .. Len(list) : list[i][1] = k
      THEN LET i == CHOOSE j \in 1 .. Len(list) :
                        /\ list[j][1] = k
                        /\ \A h \in 1 .. j - 1 : list[h][1] # k
           IN  SubSeq(list, 1, i - 1) \o << <<k, v>> >>
                 \o Without(SubSeq(list, i + 1, Len(list)), k)
      ELSE Append(list, <<k, v>>)

\* every entry passes, also an undefined one
Defined_Always(value) == TRUE

\* value !== undefined
Defined(value) == value # Undef

\* for (const [key, value] of Object.entries(params)) ...
RECURSIVE SetEntries(_, _)
SetEntries(search, entries) ==
    IF entries = <<>> THEN search
    ELSE SetEntries(IF Defined(Head(entries)[2])
                      THEN SearchParamsSet(search, Head(entries)[1],
                                           String(Head(entries)[2]))
                      ELSE search,
                    Tail(entries))

\* the URL object of buildUrl when it returns
BuiltUrl(baseUrl, endpoint, params) ==
    IF Truthy(params)
      THEN [URL(endpoint, baseUrl) EXCEPT !.search = SetEntries(@, params.e)]
      ELSE URL(endpoint, baseUrl)

\* application/x-www-form-urlencoded serialisation of one name or value
FormEncode(str) ==
    CASE str = "a b" -> "a+b"
      [] str = "a&b" -> "a%26b"
      [] OTHER -> str

RECURSIVE SerializeSearch(_)
SerializeSearch(list) ==
    IF list = <<>> THEN ""
    ELSE FormEncode(Head(list)[1]) \o "=" \o FormEncode(Head(list)[2])
           \o (IF Tail(list) = <<>> THEN "" ELSE "&" \o SerializeSearch(Tail(list)))

\* url.toString()
UrlToString(url) ==
    url.origin \o url.pathname
      \o (IF url.search = <<>> THEN "" ELSE "?" \o SerializeSearch(url.search))

buildUrl(baseUrl, endpoint, params) == UrlToString(BuiltUrl(baseUrl, endpoint, params))

DefaultHeaders ==
    [k \in {"Content-Type", "Accept"} |-> "application/json"]

\* the merge with the configuration's headers spread last
requestHeaders_ConfigLast(configHeaders, headers) ==
    Spread(Spread(DefaultHeaders, headers), configHeaders)

\* { 'Content-Type': ..., Accept: ..., ...this.config.headers, ...headers }
requestHeaders(configHeaders, headers) ==
    Spread(Spread(DefaultHeaders, configHeaders), headers)

\* JSON.stringify on the bodies explored
JSONstringify(v) ==
    CASE v.t = "null" -> "null"
      [] v.t = "boolean" -> IF v.v THEN "true" ELSE "false"
      [] v.t = "number" -> NumString(v)
      [] v.t = "string" -> "\"" \o v.v \o "\""
      [] v.t = "object" -> "{\"email\":\"" \o Get(v, "email").v \o "\"}"

\* the second argument of fetch, with the URL
fetchInit(q) ==
    [url |-> q.url, method |-> q.method, headers |-> q.requestHeaders,
     body |-> IF Truthy(q.body) THEN Str(JSONstringify(q.body)) ELSE Undef]

\* the state of call r once the step has run: a fetch issued by the step is
\* recorded with its arguments
Fetching(r, q) ==
    IF pc'[r] = "fetch" THEN [q EXCEPT !.fetches = Append(@, fetchInit(q))] ELSE q

\* the options explored
OptionHeaders ==
    {NoHeaders, [k \in {"Accept"} |-> "text/plain"],
     [k \in {"Content-Type", "X-Api-Key"} |-> IF k = "X-Api-Key" THEN "k2" ELSE "text/plain"]}
OptionParams ==
    {Undef, Entries(<<>>),
     Entries(<< <<"domain", Str("a b")>>, <<"breach_id", Undef>> >>),
     Entries(<< <<"include_details", Bool(TRUE)>>, <<"token", Str("")>> >>),
     Entries(<< <<"domain", Undef>>, <<"include_details", Bool(FALSE)>> >>),
     Entries(<< <<"token", Str("a&b")>>, <<"domain", Str("x.com")>> >>)}
OptionBodies ==
    {Undef, Null, Bool(FALSE), Bool(TRUE), Num(0), Num(7), Str(""), Str("x"),
     Obj([k \in {"email"} |-> Str("a@b.c")])}
OptionMethods == {Undef, Str("POST")}
RequestOptions ==
    [method : OptionMethods, headers : OptionHeaders, body : OptionBodies,
     params : OptionParams]

\* request(endpoint, options) up to its first await
HttpRequest(r, endpoint, options) ==
    /\ req[r].st = "idle"
    /\ Request(r)
    /\ req' = [req EXCEPT ![r] =
           Fetching(r, [st |-> "called", endpoint |-> endpoint, options |-> options,
                        method |-> IF options.method = Undef THEN "GET"
                                   ELSE options.method.v,
                        body |-> options.body,
                        built |-> BuiltUrl(config.baseUrl, endpoint, options.params),
                        url |-> buildUrl(config.baseUrl, endpoint, options.params),
                        requestHeaders |-> requestHeaders(config.headers, options.headers),
                        fetches |-> <<>>])]
    /\ UNCHANGED <<ep, call>>

\* the backoff delay has elapsed and the next fetch is issued
NextAttempt(r) ==
    /\ SleepDone(r)
    /\ req' = [req EXCEPT ![r] = Fetching(r, @)]
    /\ UNCHANGED <<ep, call>>

ConfigHeaders ==
    {NoHeaders, [k \in {"X-Api-Key"} |-> "k1"],
     [k \in {"Accept", "X-Api-Key"} |-> IF k = "X-Api-Key" THEN "k1" ELSE "application/xml"]}

RequestConfigs ==
    [retries : MIN_RETRIES .. Min(RequestRetriesBound, MAX_RETRIES),
     timeout : {DEFAULT_TIMEOUT},
     baseUrl : {"https://api.xposedornot.com"},
     headers : ConfigHeaders]

InitRequest ==
    /\ \E cfg \in RequestConfigs : InitRequests(cfg)
    /\ ep = [r \in Reqs |-> NoEndpoint]
    /\ call = NoCall

NextRequest ==
    \E r \in Solo :
        \/ \E endpoint \in Endpoints, options \in RequestOptions :
               HttpRequest(r, endpoint, options)
        \/ NextAttempt(r)
        \/ /\ \/ FetchReject(r)
              \/ \E status \in {200, 500} : FetchResponse(r, status, Undef)
              \/ BodyRead(r, "oops")
           /\ UNCHANGED <<ep, call, req>>

SpecRequest == InitRequest /\ [][NextRequest]_vars

\* C23: the headers of every fetch hold exactly the keys of the built-in
\* defaults, the configuration's headers and the per-call headers; on each
\* key the per-call value wins over the configuration's, which wins over
\* the default; all fetches of one call carry the same headers.
C23_HeaderMerge ==
    \A r \in Reqs : \A i \in 1 .. Len(req[r].fetches) :
        LET h == req[r].fetches[i].headers
            perCall == req[r].options.headers
        IN  /\ DOMAIN h = {"Content-Type", "Accept"} \cup DOMAIN config.headers
                            \cup DOMAIN perCall
            /\ \A k \in DOMAIN h :
                   h[k] = IF k \in DOMAIN perCall THEN perCall[k]
                          ELSE IF k \in DOMAIN config.headers THEN config.headers[k]
                          ELSE "application/json"
            /\ h = req[r].fetches[1].headers

\* a second attempt went out with a header set in which all three sources
\* collide
C23_Witness ==
    /\ Len(req[1].fetches) = 2
    /\ DOMAIN config.headers = {"Accept", "X-Api-Key"}
    /\ DOMAIN req[1].options.headers = {"Content-Type", "X-Api-Key"}
    /\ req[1].fetches[2].headers =
           [k \in {"Content-Type", "Accept", "X-Api-Key"} |->
               CASE k = "Content-Type" -> "text/plain"
                 [] k = "Accept" -> "application/xml"
                 [] k = "X-Api-Key" -> "k2"]

\* the values of the pairs named k, in order
RECURSIVE ValuesOf(_, _)
ValuesOf(list, k) ==
    IF list = <<>> THEN <<>>
    ELSE (IF Head(list)[1] = k THEN <<Head(list)[2]>> ELSE <<>>) \o ValuesOf(Tail(list), k)

\* C24: in the URL request() builds, an entry of params whose value is
\* undefined adds nothing (the pairs of that name are those of the endpoint
\* itself), and every other entry is there as exactly one pair holding the
\* value as a string: "true" and "false" for booleans, the string itself
\* otherwise, also when it is empty; that URL is the one every fetch gets.
C24_QueryEntries ==
    \A r \in Reqs :
        (req[r].st = "called" /\ req[r].options.params # Undef) =>
            /\ \A i \in 1 .. Len(req[r].options.params.e) :
                   LET k == req[r].options.params.e[i][1]
                       v == req[r].options.params.e[i][2]
                       found == ValuesOf(req[r].built.search, k)
                   IN  IF v = Undef
                         THEN found = ValuesOf(URL(req[r].endpoint, config.baseUrl).search, k)
                         ELSE found = << CASE v = Bool(TRUE) -> "true"
                                           [] v = Bool(FALSE) -> "false"
                                           [] OTHER -> v.v >>
            /\ \A i \in 1 .. Len(req[r].fetches) :
                   req[r].fetches[i].url = UrlToString(req[r].built)

\* a fetch went out for params {include_details: true, token: ''} and another
\* call's undefined breach_id left no trace
C24_Witness ==
    /\ Len(req[1].fetches) >= 1
    /\ req[1].endpoint = "/v1/breaches"
    /\ \/ /\ req[1].options.params
                = Entries(<< <<"include_details", Bool(TRUE)>>, <<"token", Str("")>> >>)
          /\ req[1].fetches[1].url
                = "https://api.xposedornot.com/v1/breaches?include_details=true&token="
       \/ /\ req[1].options.params
                = Entries(<< <<"domain", Str("a b")>>, <<"breach_id", Undef>> >>)
          /\ req[1].fetches[1].url = "https://api.xposedornot.com/v1/breaches?domain=a+b"

\* C30: every fetch carries the JSON text of the body option whenever that
\* option was supplied (false, 0, "" and null included), and carries no
\* body only when the option is undefined.
C30_BodyWheneverSupplied ==
    \A r \in Reqs : \A i \in 1 .. Len(req[r].fetches) :
        IF req[r].options.body = Undef
          THEN req[r].fetches[i].body = Undef
          ELSE req[r].fetches[i].body = Str(JSONstringify(req[r].options.body))

----------------------------------------------------------------------------
(* Successful responses *)

\* C25: a 2xx response whose body was read is the last event of the call:
\* the request resolves, with no further attempt and no backoff after it;
\* under a JSON content type a body that is not JSON gives the value null,
\* and under any other content type (or none) the value is the text as sent.
C25_OkEndsLoop ==
    \A r \in Reqs : \A i \in 1 .. Len(hist[r]) :
        (hist[r][i].k = "response" /\ hist[r][i].status \in 200 .. 299) =>
            /\ i = Len(hist[r])
            /\ pc[r] = "done"
            /\ attempt[r] = i
            /\ Len(delays[r]) = i - 1
            /\ result[r].kind = "value"
            /\ (resp[r].ct = Str("application/json; charset=utf-8")
                  /\ resp[r].raw \in {"", "oops"}) => result[r].value = Null
            /\ resp[r].ct \in {Undef, Str("text/html")} =>
                   result[r].value = Str(resp[r].raw)

\* a 201 with a JSON content type and an undecodable body, after a retry
C25_Witness ==
    /\ hist[1] = <<Responded(500), Responded(201)>>
    /\ resp[1].ct = Str("application/json; charset=utf-8")
    /\ resp[1].raw = "oops"
    /\ result[1] = Resolved(Null)

----------------------------------------------------------------------------
(* Statuses outside 2xx, 304 and 4xx *)

\* the statuses a Response can carry (200..599), by their classes' ends
WideStatuses == {200, 299, 300, 304, 399, 400, 429, 499, 500, 503, 599}

StatusConfigs ==
    [retries : MIN_RETRIES .. Min(StatusRetriesBound, MAX_RETRIES),
     timeout : {DEFAULT_TIMEOUT}]

InitStatus ==
    /\ \E cfg \in StatusConfigs : InitRequests(cfg)
    /\ ep = [r \in Reqs |-> NoEndpoint]
    /\ call = NoCall

NextStatus ==
    \E r \in Solo :
        /\ \/ Request(r)
           \/ FetchReject(r)
           \/ \E status \in WideStatuses : FetchResponse(r, status, Undef)
           \/ BodyRead(r, "oops")
           \/ SleepDone(r)
        /\ UNCHANGED <<ep, call, req>>

SpecStatus == InitStatus /\ [][NextStatus]_vars

\* C26: a response with a status outside 2xx, 304 and 4xx is classified as
\* an ApiError carrying that status and does not end the call while
\* attempts remain; a response ends the call with an error before the
\* attempts are used up exactly when its status is a 4xx other than 429.
C26_RetryRuleByStatus ==
    \A r \in Reqs : \A i \in 1 .. Len(hist[r]) :
        hist[r][i].k = "response" =>
            LET s == hist[r][i].status
                last == i = Len(hist[r]) /\ pc[r] \in {"done", "sleep"}
            IN  /\ (s \notin (200 .. 299) \cup {304} \cup (400 .. 499) /\ last) =>
                       /\ lastError[r].name = "ApiError"
                       /\ lastError[r].code = "API_ERROR"
                       /\ lastError[r].statusCode = Num(s)
                       /\ IF i < config.retries
                            THEN pc[r] = "sleep" /\ result[r] = Pending
                            ELSE pc[r] = "done" /\ result[r] = Rejected(lastError[r])
                /\ (s \in (400 .. 499) \ {429}) =>
                       i = Len(hist[r]) /\ pc[r] = "done" /\ result[r].kind = "error"
                /\ (/\ i = Len(hist[r])
                    /\ pc[r] = "done"
                    /\ result[r].kind = "error"
                    /\ i < config.retries) => s \in (400 .. 499) \ {429}

\* a 399 and a 503 were both retried and a 599 then used up the attempts
C26_Witness ==
    /\ config.retries = 3
    /\ hist[1] = <<Responded(399), Responded(503), Responded(599)>>
    /\ delays[1] = <<1000, 2000>>
    /\ pc[1] = "done"
    /\ result[1].kind = "error"
    /\ result[1].error.statusCode = Num(599)

----------------------------------------------------------------------------
(* Attempts are sequential *)

\* attempt k + 1 of call r starts in this step
AttemptStarts(r) == attempt'[r] # attempt[r]

\* C27: a call has at most one fetch in flight: the attempts counted exceed
\* the attempts completed by one while a fetch or its body read is pending
\* and by none otherwise; and an attempt starts only from the call itself
\* (the first) or from the end of a backoff, when every earlier attempt has
\* completed and one backoff per earlier attempt has been waited.
C27_OneAtATime ==
    /\ [](\A r \in Reqs :
             /\ attempt[r] - Len(hist[r]) = (IF pc[r] \in {"fetch", "body"} THEN 1 ELSE 0)
             /\ pc[r] \in {"fetch", "body"} => Len(delays[r]) = attempt[r] - 1)
    /\ [][\A r \in Reqs :
             AttemptStarts(r) =>
                 /\ attempt'[r] = attempt[r] + 1
                 /\ pc'[r] = "fetch"
                 /\ \/ attempt[r] = 0 /\ pc[r] = "idle"
                    \/ /\ attempt[r] >= 1
                       /\ pc[r] = "sleep"
                       /\ Len(hist[r]) = attempt[r]
                       /\ Len(delays[r]) = attempt[r]]_vars

\* the third attempt is in flight after two completed ones and two backoffs
C27_Witness ==
    /\ pc[1] = "fetch"
    /\ attempt[1] = 3
    /\ hist[1] = <<Failed, Responded(500)>>
    /\ delays[1] = <<1000, 2000>>

----------------------------------------------------------------------------
(* Classification of a decoded error body *)

\* the decoded bodies explored
DecodedBodies ==
    {Str("boom"), Str(""), Null, Num(5), Bool(TRUE), Arr(<<>>), Arr(<<Str("x")>>),
     EmptyObj,
     Obj([k \in {"Error"} |-> Str("E")]),
     Obj([k \in {"Error"} |-> Str("")]),
     Obj([k \in {"Error", "error"} |-> IF k = "Error" THEN Num(5) ELSE Str("e")]),
     Obj([k \in {"Error", "message"} |-> IF k = "Error" THEN Null ELSE Str("m")]),
     Obj([k \in {"error", "message"} |-> IF k = "error" THEN Str("e") ELSE Str("m")]),
     Obj([k \in {"Error", "error", "message"} |->
            CASE k = "Error" -> Str("E") [] k = "error" -> Str("e") [] OTHER -> Str("m")]),
     Obj([k \in {"error", "message"} |-> IF k = "error" THEN Bool(FALSE) ELSE Num(1)]),
     Obj([k \in {"message"} |-> Str("m")]),
     Obj([k \in {"retry_after"} |-> Num(60)]),
     Obj([k \in {"retryAfter"} |-> Num(5)]),
     Obj([k \in {"retry_after", "retryAfter"} |->
            IF k = "retry_after" THEN Num(1) ELSE Num(2)]),
     Obj([k \in {"retry_after", "retryAfter"} |->
            IF k = "retry_after" THEN Str("5") ELSE Num(7)]),
     Obj([k \in {"retry_after", "retryAfter"} |->
            IF k = "retry_after" THEN Null ELSE Num(7)]),
     Obj([k \in {"retry_after", "message"} |->
            IF k = "retry_after" THEN Str("soon") ELSE Str("slow down")]),
     Obj([k \in {"retryAfter"} |-> Str("7")])}

\* the statuses handleErrorResponse is applied to
ErrorStatuses == {300, 400, 401, 404, 429, 500, 503}

\* handleResponse hands the status and the decoded body to handleErrorResponse
HandleError ==
    /\ call.fn = "handleErrorResponse"
    /\ call.st = "called"
    /\ call' = [call EXCEPT !.st = "returned",
                            !.out = Rejected(handleErrorResponse(call.status, call.data))]
    /\ UNCHANGED <<reqVars, ep, req>>

InitDecode ==
    /\ InitRequests([retries |-> 3, timeout |-> DEFAULT_TIMEOUT])
    /\ ep = [r \in Reqs |-> NoEndpoint]
    /\ \E status \in ErrorStatuses, data \in DecodedBodies :
          call = [fn |-> "handleErrorResponse", st |-> "called", status |-> status,
                  data |-> data, out |-> Pending]

NextDecode == HandleError

SpecDecode == InitDecode /\ [][NextDecode]_vars

\* obj.k when it is a string
StringField(data, k) ==
    data.t = "object" /\ k \in DOMAIN data.o /\ data.o[k].t = "string"

\* the message the body yields: the body itself when it is a string, the
\* first string among the fields Error, error, message of an object, and the
\* generic text otherwise
MessageOf(data) ==
    CASE data.t = "string" -> data.v
      [] StringField(data, "Error") -> data.o["Error"].v
      [] ~StringField(data, "Error") /\ StringField(data, "error") -> data.o["error"].v
      [] /\ ~StringField(data, "Error")
         /\ ~StringField(data, "error")
         /\ StringField(data, "message") -> data.o["message"].v
      [] OTHER -> "An unknown error occurred"

\* C28 as stated: the message of every classified error is the message the
\* body yields.
C28_MessageFromBody ==
    call.fn = "handleErrorResponse" /\ call.st = "returned" =>
        call.out.error.message = MessageOf(call.data)

\* C28: the message of a classified error is the message the body yields,
\* except that an ApiError whose body yields the empty string (an empty text
\* body, or an empty string in the winning field) says "API error: <status>".
C28_MessageFromBodyOrStatus ==
    call.fn = "handleErrorResponse" /\ call.st = "returned" =>
        call.out.error.message =
            IF call.out.error.name = "ApiError" /\ MessageOf(call.data) = ""
              THEN "API error: " \o ToString(call.status)
              ELSE MessageOf(call.data)

\* a number in Error did not keep the string in error from being used
C28_Witness ==
    /\ call.fn = "handleErrorResponse"
    /\ call.st = "returned"
    /\ call.status = 404
    /\ call.data = Obj([k \in {"Error", "error"} |-> IF k = "Error" THEN Num(5) ELSE Str("e")])
    /\ call.out.error.message = "e"

\* obj.k is there / is a number
HasField(data, k) == data.t = "object" /\ k \in DOMAIN data.o
NumberField(data, k) == HasField(data, k) /\ data.o[k].t = "number"

\* C29 as stated: the hint of a RateLimitError comes from the first field
\* present among retry_after and retryAfter, and only if that field is a
\* number; a retry_after that is there without being a number leaves the
\* hint undefined whatever retryAfter holds.
C29_FirstPresentField ==
    (/\ call.fn = "handleErrorResponse"
     /\ call.st = "returned"
     /\ call.status = 429) =>
        /\ call.out.error.name = "RateLimitError"
        /\ call.out.error.retryAfter =
               IF HasField(call.data, "retry_after")
                 THEN (IF NumberField(call.data, "retry_after")
                         THEN call.data.o["retry_after"] ELSE Undef)
               ELSE IF NumberField(call.data, "retryAfter")
                 THEN call.data.o["retryAfter"]
               ELSE Undef

\* C29: the hint of a RateLimitError is retry_after when that field is a
\* number, otherwise retryAfter when that field is a number (also when
\* retry_after is there with another type), and undefined when neither is
\* a number or the body is not an object.
C29_FirstNumericField ==
    (/\ call.fn = "handleErrorResponse"
     /\ call.st = "returned"
     /\ call.status = 429) =>
        /\ call.out.error.name = "RateLimitError"
        /\ call.out.error.retryAfter =
               IF NumberField(call.data, "retry_after") THEN call.data.o["retry_after"]
               ELSE IF NumberField(call.data, "retryAfter") THEN call.data.o["retryAfter"]
               ELSE Undef

\* retry_after holds a string and the number in retryAfter became the hint
C29_Witness ==
    /\ call.fn = "handleErrorResponse"
    /\ call.st = "returned"
    /\ call.status = 429
    /\ call.data = Obj([k \in {"retry_after", "retryAfter"} |->
                          IF k = "retry_after" THEN Str("5") ELSE Num(7)])
    /\ call.out.error.retryAfter = Num(7)

----------------------------------------------------------------------------
(* The configuration under requests *)

\* C31: no step of a request changes the configuration of the client: its
\* baseUrl, timeout, retries and headers stay what the constructor stored,
\* whatever two calls, one after the other or interleaved, do and however
\* they end; and no step of a request is a call of the validating
\* constructor.
C31_ConfigUntouched ==
    /\ [](config \in ConcConfigs)
    /\ [][config' = config /\ call' = call]_vars

\* two calls on one client have ended, one with a value and one with an error
C31_Witness ==
    /\ pc[1] = "done"
    /\ pc[2] = "done"
    /\ result[1].kind = "value"
    /\ result[2].kind = "error"
    /\ config.retries = 2
    /\ config.headers = [k \in {"X-Api-Key"} |-> "k1"]

----------------------------------------------------------------------------
(* The timer of a settled request *)

\* C32: once a request that made at least one attempt has settled, with a
\* value or with any error, its timeout timer is not pending any more: it
\* has fired or it was cancelled.
C32_NoTimerLeftPending ==
    \A r \in Reqs :
        (pc[r] = "done" /\ Len(hist[r]) >= 1) => timer[r] \in {"fired", "cleared"}

\* C33: when the timer fired while the call was waiting in a backoff, every
\* fetch issued afterwards ends aborted, no response is read after the
\* firing, and the call, once settled, has thrown TimeoutError after exactly
\* one further fetch, whatever number of retries remained.
C33_TimeoutDuringBackoff ==
    \A r \in Reqs :
        fired[r].in = "sleep" =>
            /\ \A i \in fired[r].at + 1 .. Len(hist[r]) : hist[r][i] = Aborted
            /\ pc[r] # "body"
            /\ Len(hist[r]) <= fired[r].at + 1
            /\ pc[r] = "done" =>
                   /\ Len(hist[r]) = fired[r].at + 1
                   /\ result[r] = Rejected(TimeoutError("Request timed out after "
                                             \o ToString(config.timeout) \o "ms"))

\* the timer fired in the backoff after the first of four attempts and the
\* call ended with TimeoutError at its second fetch
C33_Witness ==
    /\ config.retries = 4
    /\ fired[1] = [in |-> "sleep", at |-> 1]
    /\ hist[1] = <<Failed, Aborted>>
    /\ pc[1] = "done"
    /\ result[1].error.name = "TimeoutError"

----------------------------------------------------------------------------
(* Termination *)

LiveConfigs ==
    [retries : MIN_RETRIES .. Min(LiveRetriesBound, MAX_RETRIES),
     timeout : {DEFAULT_TIMEOUT}]

InitLive ==
    /\ \E cfg \in LiveConfigs : InitRequests(cfg)
    /\ ep = [r \in Reqs |-> NoEndpoint]
    /\ call = NoCall

\* request() is called
Start(r) == Request(r) /\ UNCHANGED <<ep, call, req>>

\* the timer callback runs
Timeout(r) == TimerFire(r) /\ UNCHANGED <<ep, call, req>>

\* the pending fetch, or the pending read of the body, completes
Complete(r) ==
    /\ \/ FetchReject(r)
       \/ FetchAbort(r)
       \/ \E status \in {200, 404, 500} : FetchResponse(r, status, Undef)
       \/ BodyRead(r, "oops")
       \/ BodyFail(r)
    /\ UNCHANGED <<ep, call, req>>

\* the promise of sleep() resolves
Elapse(r) == SleepDone(r) /\ UNCHANGED <<ep, call, req>>

NextLive == \E r \in Solo : Start(r) \/ Timeout(r) \/ Complete(r) \/ Elapse(r)

\* every pending fetch or body read completes and every backoff elapses
SpecLive ==
    /\ InitLive
    /\ [][NextLive]_vars
    /\ \A r \in Solo : WF_vars(Complete(r)) /\ WF_vars(Elapse(r))

----------------------------------------------------------------------------
(* Defaults of the constructor *)

\* C39: a constructor call without options yields a client with baseUrl
\* https://api.xposedornot.com, timeout 30000, retries 3 and no headers; in
\* every client constructed, an omitted option has that default and a
\* supplied one has the supplied value, the headers being the supplied ones
\* over the empty default; an omitted option is never the field a
\* ValidationError names.
C39_Defaults ==
    Constructed =>
        /\ call.arg = [baseUrl |-> Undef, timeout |-> Undef, retries |-> Undef,
                       headers |-> Undef] =>
               call.out = Client([baseUrl |-> Str("https://api.xposedornot.com"),
                                  timeout |-> Num(30000), retries |-> Num(3),
                                  headers |-> NoHeaders])
        /\ call.out.kind = "client" =>
               /\ call.out.config.baseUrl =
                      IF call.arg.baseUrl \in {Undef, Null}
                        THEN Str("https://api.xposedornot.com") ELSE call.arg.baseUrl
               /\ call.out.config.timeout =
                      IF call.arg.timeout = Undef THEN Num(30000) ELSE call.arg.timeout
               /\ call.out.config.retries =
                      IF call.arg.retries = Undef THEN Num(3) ELSE call.arg.retries
               /\ call.out.config.headers =
                      IF call.arg.headers = Undef THEN NoHeaders ELSE call.arg.headers.o
        /\ call.out.kind = "error" =>
               /\ call.out.error.field = "baseUrl" => call.arg.baseUrl \notin {Undef, Null}
               /\ call.out.error.field = "timeout" => call.arg.timeout # Undef
               /\ call.out.error.field = "retries" => call.arg.retries # Undef

\* only retries was supplied, with 0, and only retries left its default
C39_Witness ==
    /\ Constructed
    /\ call.arg = [baseUrl |-> Undef, timeout |-> Undef, retries |-> Num(0),
                   headers |-> Undef]
    /\ call.out = Client([baseUrl |-> Str("https://api.xposedornot.com"),
                          timeout |-> Num(30000), retries |-> Num(0),
                          headers |-> NoHeaders])

----------------------------------------------------------------------------
(* The results of the endpoint functions *)

\* C36: in every result checkEmail returns, found = false comes with an
\* empty breaches list, found is true exactly when the response carried an
\* array in breaches, breaches is then that array flattened in order, and
\* email is a string.
C36_CheckEmailResult ==
    \A r \in Reqs :
        (ep[r].fn = "checkEmail" /\ ep[r].st = "done" /\ ep[r].out.kind = "value") =>
            LET v == ep[r].out.value
            IN  /\ ~v.found => v.breaches = <<>>
                /\ v.found <=> /\ result[r].kind = "value"
                               /\ Get(result[r].value, "breaches").t = "array"
                /\ (/\ result[r].kind = "value"
                    /\ resp[r].raw = "{\"breaches\":[[\"Adobe\",\"Canva\"],[\"Zynga\"]],\"email\":\"a@b.c\"}"
                    /\ v.found) =>
                       v.breaches = <<Str("Adobe"), Str("Canva"), Str("Zynga")>>
                /\ v.email.t = "string"

\* the number of entries of obj.k when it is an array, 0 otherwise
EntriesIn(obj, k) ==
    IF obj.t = "object" /\ k \in DOMAIN obj.o /\ obj.o[k].t = "array"
      THEN Len(obj.o[k].a) ELSE 0

\* C37: in every result getBreachAnalytics returns, found is true exactly
\* when the response has an entry in ExposedBreaches.breaches_details or an
\* entry in ExposedPastes; found = true comes with analytics that is not
\* null, and analytics is null only in the result made from a
\* NotFoundError.
C37_AnalyticsResult ==
    \A r \in Reqs :
        (/\ ep[r].fn = "getBreachAnalytics"
         /\ ep[r].st = "done"
         /\ ep[r].out.kind = "value") =>
            LET v == ep[r].out.value
            IN  /\ v.found <=>
                       /\ result[r].kind = "value"
                       /\ \/ EntriesIn(Get(result[r].value, "ExposedBreaches"),
                                       "breaches_details") >= 1
                          \/ EntriesIn(result[r].value, "ExposedPastes") >= 1
                /\ v.found => v.analytics # Null
                /\ v.analytics = Null =>
                       /\ result[r].kind = "error"
                       /\ result[r].error.name = "NotFoundError"
                /\ result[r].kind = "value" => v.analytics = result[r].value

\* found = true from a paste alone, ExposedBreaches being null
C37_Witness ==
    /\ ep[1].fn = "getBreachAnalytics"
    /\ ep[1].st = "done"
    /\ resp[1].raw = "{\"ExposedBreaches\":null,\"ExposedPastes\":[{\"pasteId\":\"p1\"}]}"
    /\ ep[1].out.kind = "value"
    /\ ep[1].out.value.found

\* C38: whenever request has resolved with an object, getBreaches returns
\* an array: the value of exposedBreaches when the object has one, and the
\* empty array when exposedBreaches is null or missing; the query holds
\* domain only when options.domain was given, then with that value, and
\* breach_id only when options.breachId was given, then with that value.
C38_BreachesResult ==
    \A r \in Reqs :
        ep[r].fn = "getBreaches" =>
            /\ DOMAIN ep[r].params \subseteq {"domain", "breach_id"}
            /\ "domain" \in DOMAIN ep[r].params =>
                   ep[r].domain # Undef /\ ep[r].params["domain"] = ep[r].domain
            /\ "breach_id" \in DOMAIN ep[r].params =>
                   ep[r].breachId # Undef /\ ep[r].params["breach_id"] = ep[r].breachId
            /\ (ep[r].st = "done" /\ result[r].kind = "value"
                  /\ result[r].value.t = "object") =>
                   /\ ep[r].out.kind = "value"
                   /\ ep[r].out.value.t = "array"
                   /\ ep[r].out.value =
                          IF "exposedBreaches" \in DOMAIN result[r].value.o
                               /\ result[r].value.o["exposedBreaches"] # Null
                            THEN result[r].value.o["exposedBreaches"]
                            ELSE Arr(<<>>)

\* the empty list for an object without exposedBreaches, the query holding
\* the one option that was given
C38_Witness ==
    /\ ep[1].fn = "getBreaches"
    /\ ep[1].st = "done"
    /\ ep[1].domain = Undef
    /\ DOMAIN ep[1].params = {"breach_id"}
    /\ hist[1] = <<Responded(304)>>
    /\ ep[1].out = Resolved(Arr(<<>>))

----------------------------------------------------------------------------
(* The normal form of e-mail addresses *)

\* a string without an upper-case letter and without a space at either end
IsNormalForm(cs) ==
    /\ \A i \in 1 .. Len(cs) : cs[i] \notin {"A", "B", "C"}
    /\ cs # <<>> => ~IsSpace(cs[1]) /\ ~IsSpace(cs[Len(cs)])

\* n is cs without the spaces around it, every letter in lower case
IsNormalFormOf(n, cs) ==
    \E k \in 0 .. Len(cs) :
        /\ k + Len(n) <= Len(cs)
        /\ \A i \in 1 .. Len(n) : n[i] = Lower(cs[k + i])
        /\ \A i \in (1 .. k) \cup ((k + Len(n) + 1) .. Len(cs)) : IsSpace(cs[i])

\* C40: for every string handed to checkEmail or getBreachAnalytics,
\* normalizeEmail gives the string without its surrounding whitespace and in
\* lower case, and normalising the result again changes nothing; when
\* validateEmail accepts the string, checkEmail sends the normal form as the
\* (percent-encoded) last path segment and getBreachAnalytics sends it as
\* the email query parameter.
C40_NormalizedEmailSent ==
    \A r \in Reqs :
        (ep[r].fn \in {"checkEmail", "getBreachAnalytics"} /\ TypeOf(ep[r].email) = "string") =>
            LET cs == ep[r].email.cs
                n  == normalizeEmail(cs)
            IN  /\ IsNormalForm(n)
                /\ IsNormalFormOf(n, cs)
                /\ normalizeEmail(n) = n
                /\ (ep[r].fn = "checkEmail" /\ ~validateEmail(ep[r].email).thrown) =>
                       /\ ep[r].path = <<"/v1/check-email/">> \o encodeURIComponent(n)
                       /\ cs = <<" ", "A", "@", "b", ".", "c", " ">> =>
                              ep[r].path = <<"/v1/check-email/", "a", "%", "4", "0", "b", ".", "c">>
                /\ (ep[r].fn = "getBreachAnalytics" /\ ~validateEmail(ep[r].email).thrown) =>
                       /\ ep[r].params["email"] = Chars(n)
                       /\ cs = <<" ", "A", "@", "b", ".", "c", " ">> =>
                              ep[r].params["email"] = Chars(<<"a", "@", "b", ".", "c">>)

\* " A@b.c " was accepted and sent by checkEmail as the segment a%40b.c
C40_Witness ==
    /\ ep[1].fn = "checkEmail"
    /\ ep[1].email = Chars(<<" ", "A", "@", "b", ".", "c", " ">>)
    /\ ep[1].st = "done"
    /\ ep[1].out.kind = "value"
    /\ ep[1].path = <<"/v1/check-email/", "a", "%", "4", "0", "b", ".", "c">>

----------------------------------------------------------------------------
(* The URLs the endpoint functions hand to fetch.  A string is a sequence of
   tokens: the characters of the caller's arguments one by one, and the
   fixed words of the program ("v1", "check-email", a host name) as one
   token each. *)

\* the host of the URLs new URL() accepts
UrlHost(url) ==
    CASE url = "https://api.xposedornot.com" -> "api.xposedornot.com"
      [] url = "https://example.com/api/" -> "example.com"
      [] url = "HTTPS://EXAMPLE.COM" -> "example.com"
      [] url = "http://api.example.com" -> "api.example.com"
      [] url = "ftp://example.com" -> "example.com"

\* the position of the first token of cs that is in S, Len(cs) + 1 without one
FirstIn(cs, S) ==
    IF \E i \in 1 .. Len(cs) : cs[i] \in S
      THEN CHOOSE i \in 1 .. Len(cs) : cs[i] \in S /\ \A j \in 1 .. i - 1 : cs[j] \notin S
      ELSE Len(cs) + 1

\* the pieces of cs between the tokens of S
RECURSIVE Split(_, _)
Split(cs, S) ==
    IF FirstIn(cs, S) > Len(cs) THEN <<cs>>
    ELSE <<SubSeq(cs, 1, FirstIn(cs, S) - 1)>>
           \o Split(SubSeq(cs, FirstIn(cs, S) + 1, Len(cs)), S)

\* the character a percent-encoded byte stands for
HexChar(h1, h2) ==
    CASE <<h1, h2>> = <<"4", "0">> -> "@"
      [] <<h1, h2>> = <<"2", "F">> -> "/"
      [] <<h1, h2>> = <<"2", "B">> -> "+"
      [] <<h1, h2>> = <<"3", "F">> -> "?"
      [] <<h1, h2>> = <<"2", "3">> -> "#"
      [] <<h1, h2>> = <<"2", "0">> -> " "
      [] <<h1, h2>> = <<"5", "C">> -> "\\"
      [] <<h1, h2>> = <<"2", "6">> -> "&"
      [] <<h1, h2>> = <<"3", "D">> -> "="
      [] <<h1, h2>> = <<"2", "5">> -> "%"
      [] OTHER -> "?"
IsHexPair(h1, h2) ==
    <<h1, h2>> \in {<<"4", "0">>, <<"2", "F">>, <<"2", "B">>, <<"3", "F">>, <<"2", "3">>,
                    <<"2", "0">>, <<"5", "C">>, <<"2", "6">>, <<"3", "D">>, <<"2", "5">>}

\* percent-decoding, one pass
RECURSIVE PercentDecode(_)
PercentDecode(cs) ==
    IF cs = <<>> THEN <<>>
    ELSE IF Len(cs) >= 3 /\ cs[1] = "%" /\ IsHexPair(cs[2], cs[3])
      THEN <<HexChar(cs[2], cs[3])>> \o PercentDecode(SubSeq(cs, 4, Len(cs)))
    ELSE <<Head(cs)>> \o PercentDecode(Tail(cs))

\* application/x-www-form-urlencoded decoding of a name or a value
FormDecode(cs) == PercentDecode([i \in 1 .. Len(cs) |-> IF cs[i] = "+" THEN " " ELSE cs[i]])

NonEmpty(cs) == cs # <<>>

\* one name=value piece of a query
QueryPair(piece) ==
    <<FormDecode(SubSeq(piece, 1, FirstIn(piece, {"="}) - 1)),
      FormDecode(SubSeq(piece, FirstIn(piece, {"="}) + 1, Len(piece)))>>

\* the list of pairs URLSearchParams reads from a query
ParseQuery(query) ==
    LET pieces == SelectSeq(Split(query, {"&"}), NonEmpty)
    IN  [i \in 1 .. Len(pieces) |-> QueryPair(pieces[i])]

\* the path state of the URL parser: "." is skipped, ".." removes the
\* segment before it, and either one at the end leaves an empty segment
RECURSIVE PathSegments(_, _)
PathSegments(segs, acc) ==
    IF segs = <<>> THEN acc
    ELSE LET last == Tail(segs) = <<>>
             end  == IF last THEN << <<>> >> ELSE <<>>
         IN  IF Head(segs) = <<".">> THEN PathSegments(Tail(segs), acc \o end)
             ELSE IF Head(segs) = <<".", ".">>
               THEN PathSegments(Tail(segs),
                                 (IF acc = <<>> THEN acc
                                  ELSE SubSeq(acc, 1, Len(acc) - 1)) \o end)
             ELSE PathSegments(Tail(segs), Append(acc, Head(segs)))

\* new URL(endpoint, baseUrl) for an endpoint that starts with a slash: a
\* second slash or backslash starts an authority that replaces the host of
\* the base; the path and the query of the base are dropped
ParsedUrl(endpoint, baseUrl) ==
    LET q == FirstIn(endpoint, {"?", "#"})
        h == FirstIn(endpoint, {"#"})
        front == SubSeq(endpoint, 1, q - 1)
        authority == /\ Len(front) >= 2
                     /\ front[2] \in {"/", "\\"}
        rest == SubSeq(front, IF authority THEN 3 ELSE 2, Len(front))
        slash == FirstIn(rest, {"/", "\\"})
    IN  [protocol |-> UrlProtocol(baseUrl),
         host |-> IF authority THEN SubSeq(rest, 1, slash - 1) ELSE <<UrlHost(baseUrl)>>,
         path |-> PathSegments(Split(IF authority THEN SubSeq(rest, slash + 1, Len(rest))
                                     ELSE rest, {"/", "\\"}), <<>>),
         search |-> IF q <= Len(endpoint) /\ endpoint[q] = "?"
                      THEN ParseQuery(SubSeq(endpoint, q + 1, h - 1))
                      ELSE <<>>]

\* String(value) as tokens
StringChars(v) == IF v.t = "string" /\ "cs" \in DOMAIN v THEN v.cs ELSE <<String(v)>>

\* for (const [key, value] of Object.entries(params)) url.searchParams.set(...)
RECURSIVE SetParams(_, _)
SetParams(search, entries) ==
    IF entries = <<>> THEN search
    ELSE SetParams(IF Defined(Head(entries)[2])
                     THEN SearchParamsSet(search, <<Head(entries)[1]>>,
                                          StringChars(Head(entries)[2]))
                     ELSE search,
                   Tail(entries))

\* application/x-www-form-urlencoded encoding of one character; on the
\* characters explored it differs from encodeURIComponent in the space only
UrlencodedChar(c) == IF c = " " THEN <<"+">> ELSE EncodeChar(c)

RECURSIVE Urlencoded(_)
Urlencoded(cs) ==
    IF cs = <<>> THEN <<>> ELSE UrlencodedChar(Head(cs)) \o Urlencoded(Tail(cs))

RECURSIVE UrlencodedSerialize(_)
UrlencodedSerialize(list) ==
    IF list = <<>> THEN <<>>
    ELSE Urlencoded(Head(list)[1]) \o <<"=">> \o Urlencoded(Head(list)[2])
           \o (IF Tail(list) = <<>> THEN <<>> ELSE <<"&">> \o UrlencodedSerialize(Tail(list)))

RECURSIVE JoinPath(_)
JoinPath(segs) ==
    IF segs = <<>> THEN <<>> ELSE <<"/">> \o Head(segs) \o JoinPath(Tail(segs))

\* url.toString()
Href(url) ==
    <<url.protocol, "//">> \o url.host \o JoinPath(url.path)
      \o (IF url.search = <<>> THEN <<>> ELSE <<"?">> \o UrlencodedSerialize(url.search))

\* buildUrl on tokens
buildUrlChars(baseUrl, endpoint, params) ==
    Href([ParsedUrl(endpoint, baseUrl) EXCEPT !.search = SetParams(@, params)])

\* the endpoint and the entries of params each function passes to request
RequestArgs(c) ==
    CASE c.fn = "checkEmail" ->
             [endpoint |-> <<"/", "v1", "/", "check-email", "/">>
                             \o sanitizeEmailForPath(c.email.cs),
              params |-> IF Truthy(c.includeDetails)
                           THEN << <<"include_details", c.includeDetails>> >>
                           ELSE <<>>]
      [] c.fn = "getBreachAnalytics" ->
             [endpoint |-> <<"/", "v1", "/", "breach-analytics">>,
              params |-> << <<"email", Chars(normalizeEmail(c.email.cs))>> >>
                           \o (IF Truthy(c.token) THEN << <<"token", c.token>> >> ELSE <<>>)]
      [] c.fn = "getBreaches" ->
             [endpoint |-> <<"/", "v1", "/", "breaches">>,
              params |-> (IF Truthy(c.domain) THEN << <<"domain", c.domain>> >> ELSE <<>>)
                           \o (IF Truthy(c.breachId)
                                 THEN << <<"breach_id", c.breachId>> >> ELSE <<>>)]

\* the arguments explored
UrlEmails ==
    {Chars(<<"a", "@", "b", ".", "c">>), Chars(<<" ", "A", "@", "b", ".", "c", " ">>),
     Chars(<<"a", "/", "@", "b", ".", "c">>), Chars(<<".", ".", "/", "@", "b", ".", "c">>),
     Chars(<<"a", "?", "t", "=", "1", "@", "b", ".", "c">>),
     Chars(<<"a", "#", "@", "b", ".", "c">>), Chars(<<"\\", "\\", "e", "@", "b", ".", "c">>),
     Chars(<<"a", "%", "2", "F", "@", "b", ".", "c">>), Chars(<<"a", "@", "b">>), Undef}
UrlOptions ==
    {Undef, Chars(<<>>), Chars(<<"b", ".", "c">>),
     Chars(<<"x", "&", "e", "m", "a", "i", "l", "=", "y", " ", "#", "+", "%", "2", "6">>)}
Facades == {b \in {Coalesce(a, DEFAULT_CONFIG.baseUrl) : a \in CtorBaseUrls} :
              ~validateBaseUrl(b).thrown}

NoUrl == <<>>

InitUrl ==
    /\ InitRequests([retries |-> 3, timeout |-> DEFAULT_TIMEOUT])
    /\ ep = [r \in Reqs |-> NoEndpoint]
    /\ \E baseUrl \in Facades, email \in UrlEmails, includeDetails \in {Undef, Bool(TRUE)},
          token \in UrlOptions :
          \/ \E fn \in {"checkEmail", "getBreachAnalytics"} :
                call = [fn |-> fn, st |-> "called", baseUrl |-> baseUrl, email |-> email,
                        includeDetails |-> includeDetails, token |-> token,
                        domain |-> Undef, breachId |-> Undef, url |-> NoUrl]
          \/ \E domain \in UrlOptions, breachId \in UrlOptions :
                call = [fn |-> "getBreaches", st |-> "called", baseUrl |-> baseUrl,
                        email |-> Undef, includeDetails |-> Undef, token |-> Undef,
                        domain |-> domain, breachId |-> breachId, url |-> NoUrl]

\* the function validates its argument
ValidatesEmail(c) == c.fn \in {"checkEmail", "getBreachAnalytics"}

\* the endpoint function up to the fetch of the first attempt
HandsUrlToFetch ==
    /\ call.st = "called"
    /\ ~(ValidatesEmail(call) /\ validateEmail(call.email).thrown)
    /\ call' = [call EXCEPT !.st = "fetching",
                            !.url = buildUrlChars(call.baseUrl.v, RequestArgs(call).endpoint,
                                                  RequestArgs(call).params)]
    /\ UNCHANGED <<reqVars, ep, req>>

\* the endpoint function throwing on its argument
ThrowsOnEmail ==
    /\ call.st = "called"
    /\ ValidatesEmail(call)
    /\ validateEmail(call.email).thrown
    /\ call' = [call EXCEPT !.st = "thrown"]
    /\ UNCHANGED <<reqVars, ep, req>>

NextUrl == HandsUrlToFetch \/ ThrowsOnEmail

SpecUrl == InitUrl /\ [][NextUrl]_vars

\* what the receiver of an absolute URL reads from it
ReceivedUrl(href) ==
    LET rest == SubSeq(href, 3, Len(href))
        p == FirstIn(rest, {"/", "\\", "?", "#"})
        q == FirstIn(rest, {"?", "#"})
    IN  [protocol |-> href[1],
         host |-> SubSeq(rest, 1, p - 1),
         path |-> Split(SubSeq(rest, p + 1, q - 1), {"/"}),
         search |-> ParseQuery(SubSeq(rest, q + 1, FirstIn(rest, {"#"}) - 1)),
         hash |-> FirstIn(rest, {"#"}) <= Len(rest)]

\* the value of the one pair named k, <<>> without such a pair
ValueOf(search, k) ==
    IF \E i \in 1 .. Len(search) : search[i][1] = <<k>>
      THEN search[CHOOSE i \in 1 .. Len(search) : search[i][1] = <<k>>][2]
      ELSE <<>>

NamesOf(search) == {search[i][1] : i \in 1 .. Len(search)}

\* the tokens that have a meaning in a URL
UrlSyntax == {"/", "\\", "?", "#", "&", "=", "@", " ", "+"}

\* C35: the URL an endpoint function hands to fetch has the scheme https and
\* the host of the configured baseUrl; its path is the fixed /v1/... path,
\* followed for checkEmail by exactly one segment, the percent-encoded
\* normal form of the address; its query has no other names than those of
\* the function, each once, with the caller's value; there is no fragment.
C35_UrlShape ==
    call.st = "fetching" =>
        LET u == ReceivedUrl(call.url)
        IN  /\ u.protocol = "https:"
            /\ u.host = <<UrlHost(call.baseUrl.v)>>
            /\ ~u.hash
            /\ Len(u.search) = Cardinality(NamesOf(u.search))
            /\ call.fn = "checkEmail" =>
                   /\ Len(u.path) = 3
                   /\ SubSeq(u.path, 1, 2) = << <<"v1">>, <<"check-email">> >>
                   /\ \A i \in 1 .. Len(u.path[3]) : u.path[3][i] \notin UrlSyntax
                   /\ IsNormalFormOf(PercentDecode(u.path[3]), call.email.cs)
                   /\ NamesOf(u.search) \subseteq {<<"include_details">>}
                   /\ <<"include_details">> \in NamesOf(u.search) =>
                          ValueOf(u.search, "include_details") = <<"true">>
            /\ call.fn = "getBreachAnalytics" =>
                   /\ u.path = << <<"v1">>, <<"breach-analytics">> >>
                   /\ NamesOf(u.search) \subseteq {<<"email">>, <<"token">>}
                   /\ IsNormalFormOf(ValueOf(u.search, "email"), call.email.cs)
                   /\ <<"token">> \in NamesOf(u.search) =>
                          ValueOf(u.search, "token") = call.token.cs
            /\ call.fn = "getBreaches" =>
                   /\ u.path = << <<"v1">>, <<"breaches">> >>
                   /\ NamesOf(u.search) \subseteq {<<"domain">>, <<"breach_id">>}
                   /\ <<"domain">> \in NamesOf(u.search) =>
                          ValueOf(u.search, "domain") = call.domain.cs
                   /\ <<"breach_id">> \in NamesOf(u.search) =>
                          ValueOf(u.search, "breach_id") = call.breachId.cs

\* checkEmail("../@b.c") on a facade with a baseUrl that has a path
C35_Witness ==
    /\ call.fn = "checkEmail"
    /\ call.st = "fetching"
    /\ call.baseUrl = Str("https://example.com/api/")
    /\ call.email = Chars(<<".", ".", "/", "@", "b", ".", "c">>)
    /\ call.url = <<"https:", "//", "example.com", "/", "v1", "/", "check-email", "/",
                    ".", ".", "%", "2", "F", "%", "4", "0", "b", ".", "c">>

====
